---- MODULE Spec2Model ----
(***************************************************************************)
(* A model of onemcp's tool discovery and execution engine: the tool       *)
(* catalog (internal/tools/registry.go), the execution dispatcher, the     *)
(* in-memory vector index (internal/vectorstore/memory_store.go) and the   *)
(* background upgrade of the ranking strategy (package mcp's server).      *)
(*                                                                         *)
(* Go strings that the code takes apart (tool and source names) are        *)
(* sequences of one-character strings, so that concatenation and           *)
(* strings.TrimPrefix are computed, not assumed.  Other strings (error     *)
(* kinds, categories) are TLA+ strings.                                    *)
(***************************************************************************)
EXTENDS Integers, Sequences, FiniteSets, TLC

VARIABLES
    tools,              \* Registry.tools: name -> Tool
    externalExecutors,  \* Registry.externalExecutors: source name -> executor
    origin,             \* history: name -> <<source, remote name>> of the RegisterExternalTool call that stored it
    lastErr,            \* the error the last registration call returned ("nil" when none)
    exec,               \* one caller of Execute / handleToolExecute and its position
    batch,              \* one caller of ExecuteBatch and its position
    calls,              \* history: the handler / remote invocations of the operation in progress
    startup,            \* initializeVectorStore: its position and its locals
    vectorStore,        \* AggregatorServer.vectorStore: "nil", "memory" or "claude"
    embeddings,         \* InMemoryVectorStore.embeddings: the table the slice refers to
    embedder,           \* InMemoryVectorStore.embedder
    dimension,          \* InMemoryVectorStore.dimension
    tables,             \* the heap: table -> its sequence of ToolEmbedding objects
    upgrade,            \* the goroutine downloadAndUpgradeToGloVe: its position and locals
    search,             \* searcher -> its call of Search: position and locals
    started,            \* number of Search calls started so far
    toolSearch,         \* the last call of Search or handleToolSearch made on its own, and its answer
    fuzzy               \* the last call of fuzzyMatch or levenshteinDistance, and its answer

regVars == <<tools, externalExecutors, origin, lastErr, exec, batch, calls>>

idxVars == <<startup, vectorStore, embeddings, embedder, dimension, tables, upgrade, search,
             started, toolSearch, fuzzy>>

vars == <<regVars, idxVars>>

(***************************************************************************)
(* Bounds of the model.                                                    *)
(***************************************************************************)
MaxTools == 2       \* tools the catalog may hold
MaxBatch == 3       \* requests in one batch
MaxSearches == 3    \* Search calls started in one run of the server

(***************************************************************************)
(* Inputs.                                                                 *)
(***************************************************************************)
US == <<"_">>

SourceNames == { <<"a">>, <<"a", "_", "b">> }
RemoteToolNames == { <<"c">>, <<"b", "_", "c">>, <<"a", "_", "c">> }
InternalNames == { <<>>, <<"h">>, <<"a", "_", "c">> }
UnknownName == <<"z">>
Executors == { "e1", "e2" }
Handlers == { "h1" }
NilHandler == "nil"
Categories == { "fs" }
ArgSets == { "p", "q" }

SourceInternal == "internal"
SourceExternal == "external"

\* The Tool values a caller may hand to Register: any field combination.
DirectTools ==
    [ Name : InternalNames, Category : Categories,
      Source : { SourceInternal, SourceExternal, "" },
      SourceName : { <<>> }, Handler : Handlers \cup { NilHandler } ]

(***************************************************************************)
(* strings.HasPrefix / strings.TrimPrefix                                  *)
(***************************************************************************)
HasPrefix(s, prefix) ==
    /\ Len(prefix) <= Len(s)
    /\ SubSeq(s, 1, Len(prefix)) = prefix

TrimPrefix(s, prefix) ==
    IF HasPrefix(s, prefix) THEN SubSeq(s, Len(prefix) + 1, Len(s)) ELSE s

(***************************************************************************)
(* Registry: registration and lookup                                       *)
(***************************************************************************)
Put(m, k, v) == [ x \in (DOMAIN m) \cup {k} |-> IF x = k THEN v ELSE m[x] ]

\* The error Register returns for `tool` on catalog `ts` ("nil": accepted).
RegisterError(ts, tool) ==
    IF tool.Name = <<>> THEN "InvalidTool"
    ELSE IF tool.Source = SourceInternal /\ tool.Handler = NilHandler THEN "MissingHandler"
    ELSE IF tool.Name \in DOMAIN ts THEN "DuplicateName"
    ELSE "nil"

\* A Register that stores the tool even when it reports an error.
RegisterTools_Overwrites(ts, tool) ==
    IF tool.Name = <<>> THEN ts ELSE Put(ts, tool.Name, tool)

\* The catalog after Register(tool).
RegisterTools(ts, tool) ==
    IF RegisterError(ts, tool) = "nil" THEN Put(ts, tool.Name, tool) ELSE ts

PrefixedName(sourceName, toolName) == sourceName \o US \o toolName

\* The Tool RegisterExternalTool builds.
ExternalTool(sourceName, category, toolName) ==
    [ Name |-> PrefixedName(sourceName, toolName), Category |-> category,
      Source |-> SourceExternal, SourceName |-> sourceName, Handler |-> NilHandler ]

\* Get: found flag and tool.
GetFound(ts, name) == name \in DOMAIN ts

NoTool == [ Name |-> <<>>, Category |-> "", Source |-> "", SourceName |-> <<>>,
            Handler |-> NilHandler ]

\* A Get that hands out the tool without its handler.
Get_DropsHandler(ts, name) ==
    IF name \in DOMAIN ts THEN [ err |-> "nil", tool |-> [ ts[name] EXCEPT !.Handler = NilHandler ] ]
    ELSE [ err |-> "NotFound", tool |-> NoTool ]

\* Get: the stored tool, or the not-found error and no tool.
Get(ts, name) ==
    IF name \in DOMAIN ts THEN [ err |-> "nil", tool |-> ts[name] ]
    ELSE [ err |-> "NotFound", tool |-> NoTool ]

(***************************************************************************)
(* Execution dispatcher: Execute                                           *)
(*                                                                         *)
(* Execute blocks in the handler or the remote call, so it is two steps:   *)
(* ExecuteResolve (lookup, routing, the invocation) and ExecuteComplete    *)
(* (the invocation's outcome turned into an ExecutionResult).  The elapsed *)
(* time field is left out: no branch reads it.                             *)
(***************************************************************************)
NoInv == [ kind |-> "none", target |-> "nil", source |-> <<>>, name |-> <<>>, args |-> "nil" ]

NoResult == [ Success |-> FALSE, ToolName |-> <<>>, Result |-> "nil", Error |-> "", ErrorType |-> "" ]

FailedResult(toolName, errorType, msg) ==
    [ Success |-> FALSE, ToolName |-> toolName, Result |-> "nil",
      Error |-> msg, ErrorType |-> errorType ]

SuccessResult(toolName, payload) ==
    [ Success |-> TRUE, ToolName |-> toolName, Result |-> payload,
      Error |-> "", ErrorType |-> "" ]

\* What a handler may return: (map, nil), (nil map, nil) or (_, error).
HandlerOutcomes ==
    { [ err |-> "nil", value |-> "map" ], [ err |-> "nil", value |-> "nilmap" ],
      [ err |-> "boom", value |-> "nil" ] }

\* What CallTool may return: a map, a non-map value, or an error.
RemoteOutcomes ==
    { [ err |-> "nil", value |-> "map" ], [ err |-> "nil", value |-> "scalar" ],
      [ err |-> "boom", value |-> "nil" ] }

OutcomesOf(inv) == IF inv.kind = "handler" THEN HandlerOutcomes ELSE RemoteOutcomes

\* A dispatcher that cuts the catalog name at its first underscore instead of
\* cutting off the stored source name.
FirstUnderscore(s) ==
    IF \E i \in 1..Len(s) : s[i] = "_"
    THEN CHOOSE i \in 1..Len(s) : s[i] = "_" /\ \A j \in 1..(i - 1) : s[j] # "_"
    ELSE 0

OriginalToolName_FirstUnderscore(toolName, sourceName) ==
    SubSeq(toolName, FirstUnderscore(toolName) + 1, Len(toolName))

\* The name handed to CallTool: the catalog name without "<source>_".
OriginalToolName(toolName, sourceName) == TrimPrefix(toolName, sourceName \o US)

\* A dispatcher that forgets the `if !ok` after the executor lookup and calls
\* whatever the lookup gave it.
ExecuteResolve_NoExecutorCheck(ts, ex, toolName, args) ==
    IF ~GetFound(ts, toolName)
    THEN [ done |-> TRUE, inv |-> NoInv,
           result |-> FailedResult(toolName, "tool_not_found", "tool not found") ]
    ELSE LET tool == ts[toolName] IN
         IF tool.Source = SourceInternal
         THEN [ done |-> FALSE, result |-> NoResult,
                inv |-> [ kind |-> "handler", target |-> tool.Handler, source |-> <<>>,
                          name |-> toolName, args |-> args ] ]
         ELSE [ done |-> FALSE, result |-> NoResult,
                inv |-> [ kind |-> "remote",
                          target |-> IF tool.SourceName \in DOMAIN ex
                                     THEN ex[tool.SourceName] ELSE "nil",
                          source |-> tool.SourceName,
                          name |-> OriginalToolName(toolName, tool.SourceName),
                          args |-> args ] ]

\* Execute up to the invocation: either a result at once or the invocation made.
ExecuteResolve(ts, ex, toolName, args) ==
    IF ~GetFound(ts, toolName)
    THEN [ done |-> TRUE, inv |-> NoInv,
           result |-> FailedResult(toolName, "tool_not_found", "tool not found") ]
    ELSE LET tool == ts[toolName] IN
         IF tool.Source = SourceInternal
         THEN [ done |-> FALSE, result |-> NoResult,
                inv |-> [ kind |-> "handler", target |-> tool.Handler, source |-> <<>>,
                          name |-> toolName, args |-> args ] ]
         ELSE IF tool.Source = SourceExternal
         THEN IF tool.SourceName \notin DOMAIN ex
              THEN [ done |-> TRUE, inv |-> NoInv,
                     result |-> FailedResult(toolName, "executor_not_found",
                                             "external executor not found") ]
              ELSE [ done |-> FALSE, result |-> NoResult,
                     inv |-> [ kind |-> "remote", target |-> ex[tool.SourceName],
                               source |-> tool.SourceName,
                               name |-> OriginalToolName(toolName, tool.SourceName),
                               args |-> args ] ]
         ELSE [ done |-> TRUE, inv |-> NoInv,
                result |-> FailedResult(toolName, "execution_error", "unknown tool source") ]

\* The result payload: a handler's map as it is; a remote map copied, a typed nil
\* map copied into an empty map, any other remote value wrapped under "result".
ResultPayload(inv, value) ==
    IF inv.kind = "handler" THEN value
    ELSE IF value = "map" THEN "map"
    ELSE IF value = "nilmap" THEN "emptymap"
    ELSE "wrapped"

\* Execute after the invocation returned `outcome`.
ExecuteComplete(toolName, inv, outcome) ==
    IF outcome.err # "nil"
    THEN FailedResult(toolName, "execution_error", outcome.err)
    ELSE SuccessResult(toolName, ResultPayload(inv, outcome.value))

\* A dispatcher that also returns a failure as a Go error.
ExecuteErr_Propagates(result) == IF result.Success THEN "nil" ELSE result.Error

\* The error value Execute returns beside its result: nil on every path.
ExecuteErr(result) == "nil"

(***************************************************************************)
(* Registry as used by one sequential caller: registrations and Execute    *)
(***************************************************************************)
NoOutcome == [ err |-> "nil", value |-> "nil" ]

IdleExec == [ pc |-> "idle", toolName |-> <<>>, args |-> "nil", inv |-> NoInv,
              outcome |-> NoOutcome, result |-> NoResult, err |-> "nil",
              isError |-> FALSE, canceled |-> FALSE ]

IdleBatch == [ pc |-> "idle", reqs |-> <<>>, coe |-> FALSE, i |-> 1, results |-> <<>>,
               successCount |-> 0, failedCount |-> 0, inv |-> NoInv, attempted |-> 0 ]

EmptyMap == [ x \in {} |-> "nil" ]

Searchers == { 1, 2 }       \* the callers of Search that may run at once

IdleSearch ==
    [ pc |-> "idle", query |-> <<>>, topK |-> 0, gen |-> "none", queryEmbedding |-> <<>>,
      ranged |-> 0, i |-> 0, sorted |-> 0, results |-> <<>>, err |-> "nil",
      swapped |-> FALSE ]

DefaultLimit == 5       \* NewAggregatorServer: searchResultLimit, unless the settings give one

\* No call of Search or handleToolSearch has been made; the server keeps its
\* default number of tools per answer.
IdleToolSearch ==
    [ searchResultLimit |-> DefaultLimit, op |-> "none", query |-> <<>>, topK |-> 0, category |-> "",
      detailLevel |-> "", offsetIn |-> 0, builds |-> 0, found |-> <<>>, results |-> <<>>,
      err |-> "nil", storeErr |-> "nil", paging |-> FALSE, seen |-> <<>>,
      total_count |-> 0, returned_count |-> 0, offset |-> 0, limit |-> 0,
      has_more |-> FALSE, tools |-> <<>> ]

\* No call of the fuzzy matcher has been made.
IdleFuzzy ==
    [ op |-> "none", query |-> <<>>, target |-> <<>>, matched |-> FALSE, distance |-> 0 ]

\* No server has been constructed: the catalog is used on its own.
NoIndex ==
    /\ startup = [ pc |-> "none", allTools |-> <<>>, embedder |-> "none",
                   asyncGloVeDownload |-> FALSE, missing |-> FALSE ]
    /\ vectorStore = "nil"
    /\ embeddings = 0
    /\ embedder = "none"
    /\ dimension = 0
    /\ tables = << >>
    /\ upgrade = [ pc |-> "none", download |-> "none" ]
    /\ search = [ p \in Searchers |-> IdleSearch ]
    /\ started = 0
    /\ toolSearch = IdleToolSearch
    /\ fuzzy = IdleFuzzy

InitReg ==
    /\ tools = EmptyMap
    /\ externalExecutors = EmptyMap
    /\ origin = EmptyMap
    /\ lastErr = "nil"
    /\ exec = IdleExec
    /\ batch = IdleBatch
    /\ calls = <<>>
    /\ NoIndex

\* The catalog has room for one more tool, or the call adds none.
Room(tool) ==
    RegisterError(tools, tool) = "nil" => Cardinality(DOMAIN tools) < MaxTools

Register ==
    \E tool \in DirectTools :
        /\ exec.pc = "idle"
        /\ Room(tool)
        /\ tools' = RegisterTools(tools, tool)
        /\ lastErr' = RegisterError(tools, tool)
        /\ UNCHANGED <<externalExecutors, origin, exec, batch, calls, idxVars>>

RegisterExternalExecutor ==
    \E s \in SourceNames, e \in Executors :
        /\ exec.pc = "idle"
        /\ externalExecutors' = Put(externalExecutors, s, e)
        /\ lastErr' = "nil"
        /\ UNCHANGED <<tools, origin, exec, batch, calls, idxVars>>

RegisterExternalTool ==
    \E s \in SourceNames, c \in Categories, t \in RemoteToolNames :
        LET tool == ExternalTool(s, c, t) IN
        /\ exec.pc = "idle"
        /\ Room(tool)
        /\ tools' = RegisterTools(tools, tool)
        /\ lastErr' = RegisterError(tools, tool)
        /\ origin' = IF RegisterError(tools, tool) = "nil"
                     THEN Put(origin, tool.Name, <<s, t>>) ELSE origin
        /\ UNCHANGED <<externalExecutors, exec, batch, calls, idxVars>>

\* The names a caller may ask for: every name a registration can produce, and one
\* that none does.
RequestNames ==
    InternalNames \cup { PrefixedName(s, t) : s \in SourceNames, t \in RemoteToolNames }
        \cup { UnknownName }

\* handleToolExecute calls Execute: the lookup and, when the tool resolves, the
\* invocation.
ExecuteCall ==
    \E name \in RequestNames, args \in ArgSets :
        LET r == ExecuteResolve(tools, externalExecutors, name, args) IN
        /\ exec.pc = "idle"
        /\ exec' = [ exec EXCEPT !.pc = IF r.done THEN "returned" ELSE "calling",
                                 !.toolName = name, !.args = args, !.inv = r.inv,
                                 !.outcome = NoOutcome, !.result = r.result,
                                 !.err = ExecuteErr(r.result), !.isError = FALSE ]
        /\ calls' = IF r.done THEN <<>> ELSE << [ inv |-> r.inv, pos |-> 1, nres |-> 0 ] >>
        /\ UNCHANGED <<tools, externalExecutors, origin, lastErr, batch, idxVars>>

\* The caller's context is canceled while Execute waits in the handler or in
\* CallTool.  Execute itself never reads ctx.Done or ctx.Err: what happens next is
\* up to the callee, which may return an error at once, finish its work, or not
\* return.
CancelContext ==
    /\ exec.pc = "calling"
    /\ ~exec.canceled
    /\ exec' = [ exec EXCEPT !.canceled = TRUE ]
    /\ UNCHANGED <<tools, externalExecutors, origin, lastErr, batch, calls, idxVars>>

\* The handler or the remote call returns.
ExecuteReturn ==
    \E outcome \in OutcomesOf(exec.inv) :
        LET res == ExecuteComplete(exec.toolName, exec.inv, outcome) IN
        /\ exec.pc = "calling"
        /\ exec' = [ exec EXCEPT !.pc = "returned", !.outcome = outcome, !.result = res,
                                 !.err = ExecuteErr(res) ]
        /\ UNCHANGED <<tools, externalExecutors, origin, lastErr, batch, calls, idxVars>>

\* handleToolExecute builds its response: IsError only when Execute returned an error.
HandleToolExecuteRespond ==
    /\ exec.pc = "returned"
    /\ exec' = [ exec EXCEPT !.pc = "responded", !.isError = (exec.err # "nil") ]
    /\ UNCHANGED <<tools, externalExecutors, origin, lastErr, batch, calls, idxVars>>

\* The caller takes the response; the next call may start.
ExecuteDone ==
    /\ exec.pc = "responded"
    /\ exec' = IdleExec
    /\ calls' = <<>>
    /\ UNCHANGED <<tools, externalExecutors, origin, lastErr, batch, idxVars>>

NextReg ==
    \/ Register
    \/ RegisterExternalExecutor
    \/ RegisterExternalTool
    \/ ExecuteCall
    \/ CancelContext
    \/ ExecuteReturn
    \/ HandleToolExecuteRespond
    \/ ExecuteDone

SpecRegistry == InitReg /\ [][NextReg]_vars

(***************************************************************************)
(* Execution dispatcher: ExecuteBatch                                      *)
(*                                                                         *)
(* One caller runs one batch at a time over a catalog that registration    *)
(* has completed: an internal tool h, the external tool c of source a      *)
(* (executor registered) and the external tool c of source a_b (no         *)
(* executor), so that a request can succeed, fail in its handler or remote *)
(* call, fail for want of an executor, or name no tool.                    *)
(***************************************************************************)
BatchCatalog ==
    LET t1 == RegisterTools(EmptyMap, [ Name |-> <<"h">>, Category |-> "fs",
                                        Source |-> SourceInternal, SourceName |-> <<>>,
                                        Handler |-> "h1" ])
        t2 == RegisterTools(t1, ExternalTool(<<"a">>, "fs", <<"c">>))
    IN  RegisterTools(t2, ExternalTool(<<"a", "_", "b">>, "fs", <<"c">>))

BatchExecutors == Put(EmptyMap, <<"a">>, "e1")

\* ToolExecution values of a batch.
BatchRequests ==
    { [ ToolName |-> <<"h">>, Parameters |-> "p" ],
      [ ToolName |-> <<"a", "_", "c">>, Parameters |-> "q" ],
      [ ToolName |-> <<"a", "_", "b", "_", "c">>, Parameters |-> "p" ],
      [ ToolName |-> UnknownName, Parameters |-> "q" ] }

SeqsUpTo(S, n) == UNION { [ 1..k -> S ] : k \in 0..n }

InitBatch ==
    /\ tools = BatchCatalog
    /\ externalExecutors = BatchExecutors
    /\ origin = EmptyMap
    /\ lastErr = "nil"
    /\ exec = IdleExec
    /\ batch = IdleBatch
    /\ calls = <<>>
    /\ NoIndex

\* A loop that walks the requests from the last to the first.
CurrentRequest_Reversed(b) == b.reqs[Len(b.reqs) + 1 - b.i]

\* The request the loop is at.
CurrentRequest(b) == b.reqs[b.i]

\* A loop that breaks on any failure, whatever ContinueOnError says.
BatchStops_IgnoresFlag(result, continueOnError) == ~result.Success

\* A loop that never breaks.
BatchStops_Never(result, continueOnError) == FALSE

\* The loop breaks after this result.
BatchStops(result, continueOnError) == ~result.Success /\ ~continueOnError

\* A loop body that leaves the failure that stops the batch out of the count.
Accumulate_StopUncounted(b, result) ==
    [ b EXCEPT !.results = Append(b.results, result),
               !.successCount = IF result.Success THEN @ + 1 ELSE @,
               !.failedCount = IF result.Success \/ ~b.coe THEN @ ELSE @ + 1,
               !.i = @ + 1,
               !.inv = NoInv,
               !.pc = IF BatchStops(result, b.coe) \/ b.i + 1 > Len(b.reqs)
                      THEN "returned" ELSE "loop" ]

\* The loop body after Execute returned `result`: append, count, break or go on.
Accumulate(b, result) ==
    [ b EXCEPT !.results = Append(b.results, result),
               !.successCount = IF result.Success THEN @ + 1 ELSE @,
               !.failedCount = IF result.Success THEN @ ELSE @ + 1,
               !.i = @ + 1,
               !.inv = NoInv,
               !.pc = IF BatchStops(result, b.coe) \/ b.i + 1 > Len(b.reqs)
                      THEN "returned" ELSE "loop" ]

\* ExecuteBatch is called.
BatchStart ==
    \E reqs \in SeqsUpTo(BatchRequests, MaxBatch), coe \in BOOLEAN :
        /\ batch.pc = "idle"
        /\ batch' = [ IdleBatch EXCEPT !.pc = IF Len(reqs) = 0 THEN "returned" ELSE "loop",
                                       !.reqs = reqs, !.coe = coe ]
        /\ calls' = <<>>
        /\ UNCHANGED <<tools, externalExecutors, origin, lastErr, exec, idxVars>>

\* One iteration up to the invocation (or to the result, when nothing is invoked).
BatchExecute ==
    LET req == CurrentRequest(batch)
        r == ExecuteResolve(tools, externalExecutors, req.ToolName, req.Parameters)
    IN  /\ batch.pc = "loop"
        /\ IF r.done
           THEN /\ batch' = Accumulate([ batch EXCEPT !.attempted = @ + 1 ], r.result)
                /\ calls' = calls
           ELSE /\ batch' = [ batch EXCEPT !.pc = "calling", !.inv = r.inv,
                                           !.attempted = @ + 1 ]
                /\ calls' = Append(calls, [ inv |-> r.inv, pos |-> batch.i,
                                            nres |-> Len(batch.results) ])
        /\ UNCHANGED <<tools, externalExecutors, origin, lastErr, exec, idxVars>>

\* The invocation returns and the iteration ends.
BatchReturn ==
    \E outcome \in OutcomesOf(batch.inv) :
        /\ batch.pc = "calling"
        /\ batch' = Accumulate(batch,
                        ExecuteComplete(CurrentRequest(batch).ToolName, batch.inv, outcome))
        /\ UNCHANGED <<tools, externalExecutors, origin, lastErr, exec, calls, idxVars>>

\* The caller takes the BatchExecutionResult; the next batch may start.
BatchDone ==
    /\ batch.pc = "returned"
    /\ batch' = IdleBatch
    /\ calls' = <<>>
    /\ UNCHANGED <<tools, externalExecutors, origin, lastErr, exec, idxVars>>

NextBatch ==
    \/ BatchStart
    \/ BatchExecute
    \/ BatchReturn
    \/ BatchDone

SpecBatch == InitBatch /\ [][NextBatch]_vars

(***************************************************************************)
(* Text, tokenizers and embedding strategies                               *)
(*                                                                         *)
(* A text is a sequence of chunks: a chunk is a run of letters ("read") or *)
(* one separator (" ", "_", ".").  Vectors keep their direction only: the  *)
(* division of a term count by the text's length and the L2 normalisation  *)
(* scale a vector by a positive factor, which cosine similarity ignores,   *)
(* and the zero vector stays zero.                                         *)
(***************************************************************************)
Separators == { " ", "_", "." }
ShortWords == { "a", "b", "c", "h", "z" }           \* chunks of one letter
TfidfStopWords == { "the", "to", "or" }             \* tfidf_embedder.go's list has these
GloVeStopWords == { "the", "to", "it" }             \* memory_store.go's list has these

\* strings.FieldsFunc on the separators, then the length and stop-word filter.
Tokenize(text, stopWords) ==
    SelectSeq(text, LAMBDA c : c \notin Separators /\ c \notin ShortWords /\ c \notin stopWords)

\* strings.ReplaceAll(s, "_", " ")
ReplaceUnderscores(text) == [ i \in 1..Len(text) |-> IF text[i] = "_" THEN " " ELSE text[i] ]

RECURSIVE JoinParts(_)
JoinParts(parts) ==
    IF Len(parts) = 0 THEN <<>>
    ELSE IF Len(parts) = 1 THEN parts[1]
    ELSE parts[1] \o <<".", " ">> \o JoinParts(Tail(parts))

\* createSearchableText: name, category, description and parameter names, joined by ". ".
createSearchableText(tool) ==
    JoinParts(<< ReplaceUnderscores(tool.Name) >>
              \o (IF tool.Category # "" THEN << <<tool.Category>> >> ELSE <<>>)
              \o (IF tool.Description # <<>> THEN << tool.Description >> ELSE <<>>)
              \o [ i \in 1..Len(tool.Params) |-> ReplaceUnderscores(tool.Params[i]) ])

Count(ws, w) == Cardinality({ i \in 1..Len(ws) : ws[i] = w })

WordsOf(ws) == { ws[i] : i \in 1..Len(ws) }

\* One fixed order of a set's elements.  Go iterates a map in an unspecified order;
\* on a fresh vocabulary every order gives each word its own coordinate, and cosine
\* similarity does not depend on which.
RECURSIVE SetToSeq(_)
SetToSeq(S) ==
    IF S = {} THEN <<>> ELSE LET x == CHOOSE y \in S : TRUE IN <<x>> \o SetToSeq(S \ {x})

IndexIn(sq, x) == CHOOSE i \in 1..Len(sq) : sq[i] = x

\* float32(math.Log((N+1)/(df+1))) + 1 in quarters, rounded, for corpora of up to
\* four documents: the ratio 1 gives 1.00, 5/4 gives 1.22, 4/3 gives 1.29, 3/2
\* gives 1.41, 5/3 gives 1.51, 2 gives 1.69 and 5/2 gives 1.92.
IdfScaled(totalDocs, freq) ==
    IF totalDocs + 1 <= freq + 1 THEN 4
    ELSE IF 3 * (totalDocs + 1) <= 4 * (freq + 1) THEN 5
    ELSE IF 3 * (totalDocs + 1) <= 5 * (freq + 1) THEN 6
    ELSE IF totalDocs + 1 <= 2 * (freq + 1) THEN 7
    ELSE 8

NewTFIDFEmbedder ==
    [ kind |-> "tfidf", vocabulary |-> EmptyMap, idf |-> EmptyMap, dimension |-> 0,
      initialized |-> FALSE ]

\* The pre-trained table: a few words and their coordinates.
GloVeVectors ==
    [ w \in { "read", "file", "open", "page" } |->
        CASE w = "read" -> <<1, 3>>
          [] w = "file" -> <<2, 0>>
          [] w = "open" -> <<0, 1>>
          [] w = "page" -> <<0, 1>> ]

\* modelConfig.Dim: the number of coordinates of the table's vectors.
GloVeDim == Len(GloVeVectors["read"])

NewGloVeEmbedder ==
    [ kind |-> "glove", vocabulary |-> EmptyMap, idf |-> EmptyMap, dimension |-> GloVeDim,
      initialized |-> TRUE ]

\* llmsearch.CodexSearcher as an EmbeddingGenerator: it ranks through its CLI and
\* has no vectors.
NewCodexSearcher ==
    [ kind |-> "codex", vocabulary |-> EmptyMap, idf |-> EmptyMap, dimension |-> 0,
      initialized |-> TRUE ]

\* The words of a corpus: the keys of BuildVocabulary's docFreq.
CorpusWords(documents) ==
    UNION { WordsOf(Tokenize(documents[i], TfidfStopWords)) : i \in 1..Len(documents) }

\* TFIDFEmbedder.BuildVocabulary: document frequencies, then an index and an IDF
\* per word of the corpus, written into the maps the embedder already holds;
\* order is the order in which the loop over docFreq meets the words.
BuildVocabularyIn(e, documents, order) ==
    LET docs == [ i \in 1..Len(documents) |-> Tokenize(documents[i], TfidfStopWords) ]
        corpus == CorpusWords(documents)
        docFreq(w) == Cardinality({ i \in 1..Len(docs) : w \in WordsOf(docs[i]) })
        vocab == [ w \in (DOMAIN e.vocabulary) \cup corpus |->
                     IF w \in corpus THEN IndexIn(order, w) - 1 ELSE e.vocabulary[w] ]
    IN  [ e EXCEPT !.vocabulary = vocab,
                   !.idf = [ w \in (DOMAIN e.idf) \cup corpus |->
                               IF w \in corpus THEN IdfScaled(Len(documents), docFreq(w))
                               ELSE e.idf[w] ],
                   !.dimension = Cardinality(DOMAIN vocab),
                   !.initialized = TRUE ]

\* BuildVocabulary with the loop over docFreq in one fixed order.
BuildVocabulary(e, documents) ==
    BuildVocabularyIn(e, documents, SetToSeq(CorpusWords(documents)))

\* TFIDFEmbedder.Generate, lines 83-91: the words of the text that are written
\* to each coordinate of the vector.
CoordinateWrites(e, text) ==
    IF ~e.initialized THEN << {} >>
    ELSE LET words == Tokenize(text, TfidfStopWords)
         IN  [ i \in 1..e.dimension |->
                 { w \in WordsOf(words) \cap DOMAIN e.vocabulary : e.vocabulary[w] + 1 = i } ]

\* TFIDFEmbedder.Generate
GenerateTFIDF(e, text) ==
    IF ~e.initialized THEN <<0>>
    ELSE LET words == Tokenize(text, TfidfStopWords)
             at(i) == { w \in WordsOf(words) \cap DOMAIN e.vocabulary : e.vocabulary[w] + 1 = i }
         IN  [ i \in 1..e.dimension |->
                 IF at(i) = {} THEN 0
                 ELSE LET w == CHOOSE x \in at(i) : TRUE IN Count(words, w) * e.idf[w] ]

RECURSIVE SumVectors(_, _)
SumVectors(vs, dim) ==
    IF Len(vs) = 0 THEN [ i \in 1..dim |-> 0 ]
    ELSE LET rest == SumVectors(Tail(vs), dim) IN [ i \in 1..dim |-> vs[1][i] + rest[i] ]

\* GloVeEmbedder.Generate: the known words' vectors added up (their average, up to
\* scale); words the table lacks are skipped.
GenerateGloVe(e, text) ==
    LET words == SelectSeq(Tokenize(text, GloVeStopWords), LAMBDA w : w \in DOMAIN GloVeVectors)
    IN  SumVectors([ i \in 1..Len(words) |-> GloVeVectors[words[i]] ], e.dimension)

\* EmbeddingGenerator.Generate, the vector: nil when the call fails.
Generate(e, text) ==
    IF e.kind = "tfidf" THEN GenerateTFIDF(e, text)
    ELSE IF e.kind = "glove" THEN GenerateGloVe(e, text)
    ELSE <<>>

\* EmbeddingGenerator.Generate, the error: TF-IDF and GloVe always return nil,
\* CodexSearcher.Generate always fails.
GenerateErr(e, text) == IF e.kind = "codex" THEN "unsupported" ELSE "nil"

\* EmbeddingGenerator.Dimension
Dimension(e) == IF e.kind = "tfidf" /\ ~e.initialized THEN 0 ELSE e.dimension

RECURSIVE Dot(_, _)
Dot(a, b) == IF Len(a) = 0 THEN 0 ELSE a[1] * b[1] + Dot(Tail(a), Tail(b))

\* cosineSimilarity, as the signed square of the cosine in thousandths, which
\* orders pairs of vectors as the cosine does: 0 for vectors of different lengths
\* and for a zero vector.
cosineSimilarity(a, b) ==
    IF Len(a) # Len(b) THEN 0
    ELSE LET dotProduct == Dot(a, b)
             normA == Dot(a, a)
             normB == Dot(b, b)
         IN  IF normA = 0 \/ normB = 0 THEN 0
             ELSE IF dotProduct >= 0
                  THEN (dotProduct * dotProduct * 1000) \div (normA * normB)
                  ELSE 0 - ((dotProduct * dotProduct * 1000) \div (normA * normB))

(***************************************************************************)
(* Semantic index: InMemoryVectorStore, ClaudeVectorStore, and the server  *)
(* that builds the index at startup and upgrades it in the background.     *)
(*                                                                         *)
(* The store has no lock and no atomic field: every read and write of      *)
(* embeddings, embedder and Score below is a step of its own, in the order *)
(* of the statements of Search.                                            *)
(***************************************************************************)
ToolA ==
    [ Name |-> <<"read", "_", "file">>, Description |-> <<"read", " ", "the", " ", "file">>,
      Category |-> "fs", Params |-> << <<"path">> >>, Source |-> SourceInternal,
      SourceName |-> <<>>, Handler |-> "h1" ]

ToolB ==
    [ Name |-> <<"open", "_", "page">>, Description |-> <<"open", " ", "a", " ", "page">>,
      Category |-> "web", Params |-> <<>>, Source |-> SourceInternal,
      SourceName |-> <<>>, Handler |-> "h1" ]

\* Two more tools, of the catalogs that tool_search is asked about.
ToolC ==
    [ Name |-> <<"write", "_", "file">>, Description |-> <<"write", " ", "the", " ", "file">>,
      Category |-> "fs", Params |-> << <<"path">> >>, Source |-> SourceInternal,
      SourceName |-> <<>>, Handler |-> "h1" ]

ToolD ==
    [ Name |-> <<"close", "_", "page">>, Description |-> <<"close", " ", "a", " ", "page">>,
      Category |-> "web", Params |-> <<>>, Source |-> SourceInternal,
      SourceName |-> <<>>, Handler |-> "h1" ]

IndexCatalog == Put(Put(EmptyMap, ToolA.Name, ToolA), ToolB.Name, ToolB)

Queries == { <<"read">>, <<"page">> }

TopKs == { 1, 2 }

Orderings(n) == { f \in [ 1..n -> 1..n ] : \A i, j \in 1..n : f[i] = f[j] => i = j }

\* Registry.ListAll: the tools of the map, in any order.
ListAll(ts) ==
    LET names == SetToSeq(DOMAIN ts)
    IN  { [ i \in 1..Len(names) |-> ts[names[f[i]]] ] : f \in Orderings(Len(names)) }

\* The startup configurations: embedder type, whether the Claude CLI is there, and
\* for GloVe whether the model is known, cached, and loads.
Configs ==
    { [ embedderType |-> "tfidf", claudeOk |-> FALSE, modelKnown |-> FALSE, cached |-> FALSE, loadOk |-> FALSE ],
      [ embedderType |-> "other", claudeOk |-> FALSE, modelKnown |-> FALSE, cached |-> FALSE, loadOk |-> FALSE ],
      [ embedderType |-> "claude", claudeOk |-> TRUE, modelKnown |-> FALSE, cached |-> FALSE, loadOk |-> FALSE ],
      [ embedderType |-> "claude", claudeOk |-> FALSE, modelKnown |-> FALSE, cached |-> FALSE, loadOk |-> FALSE ],
      [ embedderType |-> "glove", claudeOk |-> FALSE, modelKnown |-> FALSE, cached |-> FALSE, loadOk |-> FALSE ],
      [ embedderType |-> "glove", claudeOk |-> FALSE, modelKnown |-> TRUE, cached |-> FALSE, loadOk |-> FALSE ],
      [ embedderType |-> "glove", claudeOk |-> FALSE, modelKnown |-> TRUE, cached |-> TRUE, loadOk |-> TRUE ],
      [ embedderType |-> "glove", claudeOk |-> FALSE, modelKnown |-> TRUE, cached |-> TRUE, loadOk |-> FALSE ] }

\* The GloVe model is wanted and known but its file is not in the cache.
ModelMissing(c) == c.embedderType = "glove" /\ c.modelKnown /\ ~c.cached

\* A switch that keeps the preferred strategy although it could not be set up.
SelectEmbedder_NoFallback(c) ==
    [ embedder |-> IF c.embedderType \in { "claude", "glove" } THEN c.embedderType ELSE "tfidf",
      asyncGloVeDownload |-> FALSE ]

\* The switch of initializeVectorStore: the strategy to start with, and whether
\* the GloVe model is to be downloaded in the background.
SelectEmbedder(c) ==
    IF c.embedderType = "claude"
    THEN IF c.claudeOk THEN [ embedder |-> "claude", asyncGloVeDownload |-> FALSE ]
         ELSE [ embedder |-> "tfidf", asyncGloVeDownload |-> FALSE ]
    ELSE IF c.embedderType = "glove"
    THEN IF ~c.modelKnown THEN [ embedder |-> "tfidf", asyncGloVeDownload |-> FALSE ]
         ELSE IF ~c.cached THEN [ embedder |-> "tfidf", asyncGloVeDownload |-> TRUE ]
         ELSE IF c.loadOk THEN [ embedder |-> "glove", asyncGloVeDownload |-> FALSE ]
         ELSE [ embedder |-> "tfidf", asyncGloVeDownload |-> FALSE ]
    ELSE [ embedder |-> "tfidf", asyncGloVeDownload |-> FALSE ]

NewEmbedder(kind) ==
    IF kind = "glove" THEN NewGloVeEmbedder
    ELSE IF kind = "codex" THEN NewCodexSearcher
    ELSE NewTFIDFEmbedder

\* NewInMemoryVectorStore
NewInMemoryVectorStore(e) == [ embeddings |-> <<>>, embedder |-> e, dimension |-> Dimension(e) ]

\* InMemoryVectorStore.BuildFromTools: the TF-IDF vocabulary first, then one
\* ToolEmbedding appended to the table per tool whose Generate returned no error;
\* a tool whose Generate failed is skipped and the loop goes on.
BuildFromTools(st, allTools) ==
    LET documents == [ i \in 1..Len(allTools) |-> createSearchableText(allTools[i]) ]
        e == IF st.embedder.kind = "tfidf" THEN BuildVocabulary(st.embedder, documents)
             ELSE st.embedder
        generated == SelectSeq([ i \in 1..Len(allTools) |-> i ],
                               LAMBDA i : GenerateErr(e, documents[i]) = "nil")
    IN  [ embeddings |-> st.embeddings \o
                         [ k \in 1..Len(generated) |->
                             [ Tool |-> allTools[generated[k]].Name,
                               Embedding |-> Generate(e, documents[generated[k]]),
                               Score |-> 0 ] ],
          embedder |-> e,
          dimension |-> IF st.embedder.kind = "tfidf" THEN Dimension(e) ELSE st.dimension ]

\* BuildFromTools returns a nil error whatever Generate returned.
BuildFromToolsErr(st, allTools) == "nil"

\* The store a server or a rebuild makes for a strategy and a list of tools:
\* NewInMemoryVectorStore, then BuildFromTools.  Worked out once for each
\* strategy and each order of the catalog.
BuiltStore ==
    [ kind \in { "tfidf", "glove" }, allTools \in ListAll(IndexCatalog) |->
        BuildFromTools(NewInMemoryVectorStore(NewEmbedder(kind)), allTools) ]

\* RebuildWithEmbedder, first half: the table for the new strategy, built to the
\* side from the tools of the current table.
RebuildTable(current, kind) ==
    BuiltStore[kind, [ i \in 1..Len(current) |-> IndexCatalog[current[i].Tool] ]].embeddings

\* The orders sort.Slice may leave the table in: descending by Score, equal
\* scores in any order.
SortedOrders(scores) ==
    { f \in Orderings(Len(scores)) :
        \A i \in 1..(Len(scores) - 1) : scores[f[i]] >= scores[f[i + 1]] }

Min(a, b) == IF a < b THEN a ELSE b

\* A Search that always fills topK places, repeating its last tool.
TopTools_Unclamped(table, order, topK) ==
    [ i \in 1..topK |-> table[order[Min(i, Len(table))]].Tool ]

\* The tools of the first topK entries of the sorted copy.
TopTools(table, order, topK) ==
    [ i \in 1..Min(topK, Len(table)) |-> table[order[i]].Tool ]

\* What Search returns for the query when nothing else runs: the ranking by the
\* strategy's similarity of the query to each tool's vector.
SearchAlone(table, e, query, topK) ==
    LET q == Generate(e, query)
        scores == [ i \in 1..Len(table) |-> cosineSimilarity(q, table[i].Embedding) ]
    IN  { TopTools(table, f, topK) : f \in SortedOrders(scores) }

\* What the Claude CLI may answer: an error, or names in its order of relevance,
\* some of which the catalog may lack; nothing holds it to the number of names
\* the prompt asks for.
ProviderAnswers ==
    { [ err |-> "cli failed", names |-> <<>> ],
      [ err |-> "nil", names |-> <<>> ],
      [ err |-> "nil", names |-> << ToolB.Name >> ],
      [ err |-> "nil", names |-> << ToolB.Name, UnknownName, ToolA.Name >> ],
      [ err |-> "nil", names |-> << ToolD.Name, ToolC.Name, ToolB.Name, ToolA.Name >> ] }

\* ClaudeVectorStore.Search after the CLI has answered: names mapped back to
\* tools, unknown names dropped.
ClaudeResults(allTools, answer) ==
    SelectSeq(answer.names, LAMBDA n : \E i \in 1..Len(allTools) : allTools[i].Name = n)

InitIdx ==
    /\ tools \in { EmptyMap, IndexCatalog }
    /\ externalExecutors = EmptyMap
    /\ origin = EmptyMap
    /\ lastErr = "nil"
    /\ exec = IdleExec
    /\ batch = IdleBatch
    /\ calls = <<>>
    /\ startup = [ pc |-> "select", allTools |-> <<>>, embedder |-> "none",
                   asyncGloVeDownload |-> FALSE, missing |-> FALSE ]
    /\ vectorStore = "nil"
    /\ embeddings = 0
    /\ embedder = "none"
    /\ dimension = 0
    /\ tables = << >>
    /\ upgrade = [ pc |-> "none", download |-> "none" ]
    /\ search = [ p \in Searchers |-> IdleSearch ]
    /\ started = 0
    /\ toolSearch = IdleToolSearch
    /\ fuzzy = IdleFuzzy

\* initializeVectorStore up to the choice of the strategy; with no tool it returns.
SelectStrategy ==
    /\ startup.pc = "select"
    /\ \E allTools \in ListAll(tools), c \in Configs :
         startup' = IF Len(allTools) = 0
                    THEN [ startup EXCEPT !.pc = "done" ]
                    ELSE [ pc |-> "build", allTools |-> allTools,
                           embedder |-> SelectEmbedder(c).embedder,
                           asyncGloVeDownload |-> SelectEmbedder(c).asyncGloVeDownload,
                           missing |-> ModelMissing(c) ]
    /\ UNCHANGED <<regVars, fuzzy, toolSearch, vectorStore, embeddings, embedder, dimension, tables, upgrade,
                   search, started>>

\* The store is created and built, and only then assigned to s.vectorStore.
BuildAndPublish ==
    /\ startup.pc = "build"
    /\ IF startup.embedder = "claude"
       THEN /\ vectorStore' = "claude"
            /\ UNCHANGED <<embeddings, embedder, dimension, tables>>
       ELSE LET st == BuiltStore[startup.embedder, startup.allTools]
            IN  /\ vectorStore' = "memory"
                /\ tables' = << st.embeddings >>
                /\ embeddings' = 1
                /\ embedder' = st.embedder
                /\ dimension' = st.dimension
    /\ startup' = [ startup EXCEPT !.pc = "spawn" ]
    /\ UNCHANGED <<regVars, fuzzy, toolSearch, upgrade, search, started>>

\* The go statement, when the background download was asked for; then return.
SpawnUpgrade ==
    /\ startup.pc = "spawn"
    /\ upgrade' = IF startup.asyncGloVeDownload
                  THEN [ upgrade EXCEPT !.pc = "download" ] ELSE upgrade
    /\ startup' = [ startup EXCEPT !.pc = "done" ]
    /\ UNCHANGED <<regVars, fuzzy, toolSearch, vectorStore, embeddings, embedder, dimension, tables, search,
                   started>>

\* The position after NewGloVeEmbedder returned in the goroutine: on an error
\* the goroutine logs and returns.
AfterDownload_IgnoresError(download) == "check"

AfterDownload(download) == IF download = "ok" THEN "check" ELSE "returned"

\* downloadAndUpgradeToGloVe: NewGloVeEmbedder downloads and loads the model, or fails.
Download ==
    /\ upgrade.pc = "download"
    /\ \E download \in { "ok", "failed" } :
         upgrade' = [ pc |-> AfterDownload(download), download |-> download ]
    /\ UNCHANGED <<regVars, fuzzy, toolSearch, startup, vectorStore, embeddings, embedder, dimension, tables,
                   search, started>>

\* The goroutine finds the published store and calls RebuildWithEmbedder, which
\* builds the new table to the side.
RebuildWithEmbedder ==
    /\ upgrade.pc = "check"
    /\ IF vectorStore = "memory"
       THEN /\ tables' = Append(tables, RebuildTable(tables[embeddings], "glove"))
            /\ upgrade' = [ upgrade EXCEPT !.pc = "swap" ]
       ELSE /\ upgrade' = [ upgrade EXCEPT !.pc = "returned" ]
            /\ UNCHANGED tables
    /\ UNCHANGED <<regVars, fuzzy, toolSearch, startup, vectorStore, embeddings, embedder, dimension, search,
                   started>>

\* RebuildWithEmbedder, second half: table and strategy replaced in one step.
Swap ==
    /\ upgrade.pc = "swap"
    /\ embeddings' = Len(tables)
    /\ embedder' = NewGloVeEmbedder
    /\ dimension' = Dimension(NewGloVeEmbedder)
    /\ upgrade' = [ upgrade EXCEPT !.pc = "swapped" ]
    /\ UNCHANGED <<regVars, fuzzy, toolSearch, startup, vectorStore, tables, search, started>>

Swapped == upgrade.pc = "swapped"

\* A caller enters Search of the published store.
SearchCall(p) ==
    /\ startup.pc = "done"
    /\ vectorStore # "nil"
    /\ search[p].pc = "idle"
    /\ started < MaxSearches
    /\ \E query \in Queries, topK \in TopKs :
         search' = [ search EXCEPT ![p] =
                       [ IdleSearch EXCEPT !.pc = IF vectorStore = "claude" THEN "claude" ELSE "len",
                                           !.query = query, !.topK = topK,
                                           !.swapped = Swapped ] ]
    /\ started' = started + 1
    /\ UNCHANGED <<regVars, fuzzy, toolSearch, startup, vectorStore, embeddings, embedder, dimension, tables,
                   upgrade>>

\* ClaudeVectorStore.Search
SearchClaude(p) ==
    /\ search[p].pc = "claude"
    /\ \E answer \in ProviderAnswers :
         search' = [ search EXCEPT ![p].pc = "done",
                                   ![p].err = answer.err,
                                   ![p].results = IF answer.err = "nil" /\ Len(startup.allTools) > 0
                                                  THEN ClaudeResults(startup.allTools, answer)
                                                  ELSE <<>> ]
    /\ UNCHANGED <<regVars, fuzzy, toolSearch, startup, vectorStore, embeddings, embedder, dimension, tables,
                   upgrade, started>>

\* if len(s.embeddings) == 0
SearchLen(p) ==
    /\ search[p].pc = "len"
    /\ search' = [ search EXCEPT ![p].pc = IF Len(tables[embeddings]) = 0 THEN "done" ELSE "gen" ]
    /\ UNCHANGED <<regVars, fuzzy, toolSearch, startup, vectorStore, embeddings, embedder, dimension, tables,
                   upgrade, started>>

\* queryEmbedding, err := s.embedder.Generate(query)
SearchGenerate(p) ==
    /\ search[p].pc = "gen"
    /\ search' = [ search EXCEPT ![p].pc = "range",
                                 ![p].gen = embedder.kind,
                                 ![p].queryEmbedding = Generate(embedder, search[p].query) ]
    /\ UNCHANGED <<regVars, fuzzy, toolSearch, startup, vectorStore, embeddings, embedder, dimension, tables,
                   upgrade, started>>

\* for _, toolEmbed := range s.embeddings: the slice is read once.
SearchRange(p) ==
    /\ search[p].pc = "range"
    /\ search' = [ search EXCEPT ![p].pc = "score", ![p].ranged = embeddings, ![p].i = 1 ]
    /\ UNCHANGED <<regVars, fuzzy, toolSearch, startup, vectorStore, embeddings, embedder, dimension, tables,
                   upgrade, started>>

\* toolEmbed.Score = cosineSimilarity(queryEmbedding, toolEmbed.Embedding)
SearchScore(p) ==
    /\ search[p].pc = "score"
    /\ LET t == search[p].ranged
           i == search[p].i
       IN  /\ tables' = [ tables EXCEPT ![t][i].Score =
                            cosineSimilarity(search[p].queryEmbedding, tables[t][i].Embedding) ]
           /\ search' = [ search EXCEPT ![p].i = i + 1,
                                        ![p].pc = IF i = Len(tables[t]) THEN "copy" ELSE "score" ]
    /\ UNCHANGED <<regVars, fuzzy, toolSearch, startup, vectorStore, embeddings, embedder, dimension, upgrade,
                   started>>

\* sortedEmbeddings := make(..., len(s.embeddings)); copy(sortedEmbeddings, s.embeddings):
\* both tables hold the same number of entries, so the two reads count as one.
SearchCopy(p) ==
    /\ search[p].pc = "copy"
    /\ search' = [ search EXCEPT ![p].pc = "sort", ![p].sorted = embeddings ]
    /\ UNCHANGED <<regVars, fuzzy, toolSearch, startup, vectorStore, embeddings, embedder, dimension, tables,
                   upgrade, started>>

\* sort.Slice by the Score fields as they are now, then the first topK tools.
SearchSort(p) ==
    /\ search[p].pc = "sort"
    /\ LET table == tables[search[p].sorted]
           scores == [ i \in 1..Len(table) |-> table[i].Score ]
       IN  \E order \in SortedOrders(scores) :
             search' = [ search EXCEPT ![p].pc = "done",
                                       ![p].results = TopTools(table, order, search[p].topK) ]
    /\ UNCHANGED <<regVars, fuzzy, toolSearch, startup, vectorStore, embeddings, embedder, dimension, tables,
                   upgrade, started>>

\* The caller has its answer.
SearchReturn(p) ==
    /\ search[p].pc = "done"
    /\ search' = [ search EXCEPT ![p] = IdleSearch ]
    /\ UNCHANGED <<regVars, fuzzy, toolSearch, startup, vectorStore, embeddings, embedder, dimension, tables,
                   upgrade, started>>

NextIdx ==
    \/ SelectStrategy
    \/ BuildAndPublish
    \/ SpawnUpgrade
    \/ Download
    \/ RebuildWithEmbedder
    \/ Swap
    \/ \E p \in Searchers : SearchCall(p)
    \/ \E p \in Searchers : SearchClaude(p)
    \/ \E p \in Searchers : SearchLen(p)
    \/ \E p \in Searchers : SearchGenerate(p)
    \/ \E p \in Searchers : SearchRange(p)
    \/ \E p \in Searchers : SearchScore(p)
    \/ \E p \in Searchers : SearchCopy(p)
    \/ \E p \in Searchers : SearchSort(p)
    \/ \E p \in Searchers : SearchReturn(p)

SpecIndex == InitIdx /\ [][NextIdx]_vars

\* The Go scheduler runs every goroutine that can run: startup and the upgrade
\* goroutine go on until they return.
SpecIndexFair ==
    /\ SpecIndex
    /\ WF_vars(SelectStrategy \/ BuildAndPublish \/ SpawnUpgrade)
    /\ WF_vars(Download \/ RebuildWithEmbedder \/ Swap)

(***************************************************************************)
(* tool_search: handleToolSearch over a built index, one call at a time    *)
(*                                                                         *)
(* A server whose startup has finished answers calls of tool_search; the   *)
(* store's Search is also called on its own, and BuildFromTools may be     *)
(* called again on the same store.  Nothing runs concurrently here, so     *)
(* each call is one step.                                                  *)
(***************************************************************************)
MaxOffset == 3          \* offsets of a tool_search request go from -1 to MaxOffset
MaxTopK == 3            \* Search is called with topK from 0 to MaxTopK
MaxBuilds == 2          \* calls of BuildFromTools on one store
MaxEntries == 4         \* entries of one store's table

\* The tool lists a store is built from: none, one tool, two tools in both orders.
SearchToolLists ==
    { <<>>, << ToolA >>, << ToolA, ToolB >>, << ToolB, ToolA >>,
      << ToolA, ToolB, ToolC, ToolD >> }

SearchCatalog == Put(Put(IndexCatalog, ToolC.Name, ToolC), ToolD.Name, ToolD)

\* Queries: a word of one tool, a word of the other, a word of neither.
SearchQueries == Queries \cup { UnknownName }

SearchTopKs == 0..MaxTopK

\* Settings.SearchResultLimit when positive, else the default.
SearchResultLimits == { 1, 2, DefaultLimit }

ToolSearchInputs ==
    [ Query : SearchQueries, Category : { "", "fs", "web" },
      DetailLevel : { "", "names_only", "detailed" }, Offset : (0 - 1)..MaxOffset ]

\* The embedders an InMemoryVectorStore is built over.
MemoryKinds == { "tfidf", "glove", "codex" }

\* The store after NewInMemoryVectorStore and b calls of BuildFromTools with the
\* same tools.
RECURSIVE StoreAfter(_, _, _)
StoreAfter(kind, allTools, b) ==
    IF b = 0 THEN NewInMemoryVectorStore(NewEmbedder(kind))
    ELSE BuildFromTools(StoreAfter(kind, allTools, b - 1), allTools)

\* The stores of the model: a strategy, a tool list and a number of builds that
\* leaves the table within MaxEntries.
BuildCases ==
    { c \in MemoryKinds \X SearchToolLists \X (1..MaxBuilds) : c[3] * Len(c[2]) <= MaxEntries }

\* StoreAfter, worked out once for each strategy, tool list and number of builds.
SearchStores ==
    [ c \in BuildCases |-> StoreAfter(c[1], c[2], c[3]) ]

\* Search, lines 76-93: the scores of the table's entries for the query.
ScoresOf(st, query) ==
    LET q == Generate(st.embedder, query)
    IN  [ i \in 1..Len(st.embeddings) |-> cosineSimilarity(q, st.embeddings[i].Embedding) ]

\* The orders sort.Slice may leave each store's copy in for each query, worked
\* out once.
Rankings ==
    [ c \in BuildCases \X SearchQueries |->
        SortedOrders(ScoresOf(SearchStores[c[1]], c[2])) ]

\* InMemoryVectorStore.Search on the store built b times: the empty answer for an
\* empty table, else the first topK tools of the sorted copy.
VectorStoreSearch(kind, allTools, b, query, topK) ==
    LET st == SearchStores[kind, allTools, b]
    IN  IF Len(st.embeddings) = 0 THEN { <<>> }
        ELSE { TopTools(st.embeddings, f, topK) :
               f \in Rankings[<<kind, allTools, b>>, query] }

\* A handler that filters nothing.
FilterCategory_Ignored(foundTools, category) == foundTools

\* handleToolSearch: the tools of the given category, all tools when none is given.
FilterCategory(foundTools, category) ==
    IF category # ""
    THEN SelectSeq(foundTools, LAMBDA n : SearchCatalog[n].Category = category)
    ELSE foundTools

PageStart(offset, totalCount) == IF offset > totalCount THEN totalCount ELSE offset

\* A page that holds one tool more than the limit.
PageEnd_OneMore(start, limit, totalCount) ==
    IF start + limit + 1 > totalCount THEN totalCount ELSE start + limit + 1

PageEnd(start, limit, totalCount) ==
    IF start + limit > totalCount THEN totalCount ELSE start + limit

\* A has_more that is also set on the last page.
HasMore_Inclusive(end, totalCount) == end <= totalCount

HasMore(end, totalCount) == end < totalCount

\* tools.ToolMetadata of a tool for a detail level.
ToolMetadata(n, detailLevel) ==
    [ Name |-> n,
      Category |-> SearchCatalog[n].Category,
      Description |-> IF detailLevel # "names_only" THEN SearchCatalog[n].Description ELSE <<>>,
      Parameters |-> IF detailLevel \in { "detailed", "full_schema" }
                     THEN SearchCatalog[n].Params ELSE <<>> ]

\* The names of the tools an answer holds.
PageNames(response) == [ i \in 1..Len(response.tools) |-> response.tools[i].Name ]

\* A handler that asks the store for four times the limit.
SearchTopK_FourTimes(limit) == limit * 4

\* handleToolSearch asks the store for three times the limit, to have tools left
\* after the category filter.
SearchTopK(limit) == limit * 3

\* handleToolSearch after the store has answered with foundTools.
SearchResponse(ts, input, foundTools) ==
    LET detailLevel == IF input.DetailLevel = "" THEN "summary" ELSE input.DetailLevel
        limit == ts.searchResultLimit
        offset == IF input.Offset < 0 THEN 0 ELSE input.Offset
        filtered == FilterCategory(foundTools, input.Category)
        totalCount == Len(filtered)
        start == PageStart(offset, totalCount)
        end == PageEnd(start, limit, totalCount)
        paginatedTools == SubSeq(filtered, start + 1, end)
        toolMetadata == [ i \in 1..Len(paginatedTools) |->
                            ToolMetadata(paginatedTools[i], detailLevel) ]
    IN  [ ts EXCEPT !.op = "tool_search", !.query = input.Query, !.topK = SearchTopK(limit),
                    !.category = input.Category, !.detailLevel = detailLevel,
                    !.offsetIn = input.Offset, !.found = foundTools, !.results = filtered,
                    !.err = "nil", !.total_count = totalCount,
                    !.returned_count = Len(toolMetadata), !.offset = offset,
                    !.limit = limit, !.has_more = HasMore(end, totalCount),
                    !.tools = toolMetadata ]

\* The stores a server may hold: an in-memory store over one of its embedders,
\* or the store that asks the Claude CLI.
StoreKinds == MemoryKinds \cup { "claude" }

\* What the server's store answers to Search(query, topK): a ranking of the
\* in-memory table, or what the CLI-backed store makes of the provider's answer,
\* which may be an error.
StoreAnswers(vs, kind, allTools, b, query, topK) ==
    IF vs = "claude"
    THEN { [ err |-> a.err,
             results |-> IF a.err = "nil" THEN ClaudeResults(allTools, a) ELSE <<>> ] :
           a \in ProviderAnswers }
    ELSE { [ err |-> "nil", results |-> r ] :
           r \in VectorStoreSearch(kind, allTools, b, query, topK) }

\* handleToolSearch, lines 397-422: nothing when the search failed.
FoundTools(answer) == IF answer.err # "nil" THEN <<>> ELSE answer.results

\* A handler that hands the store's error on to its caller.
HandleToolSearchErr_Propagates(storeErr) == storeErr

\* handleToolSearch returns a nil error whatever the store said.
HandleToolSearchErr(storeErr) == "nil"

\* A server after startup with its index built once; with no tool the server has
\* no vector store at all.
InitSearch ==
    /\ \E allTools \in SearchToolLists, kind \in StoreKinds,
          l \in SearchResultLimits :
         LET st == IF kind = "claude"
                   THEN [ embeddings |-> <<>>, embedder |-> "none", dimension |-> 0 ]
                   ELSE SearchStores[kind, allTools, 1]
         IN  /\ tools = [ n \in { allTools[i].Name : i \in 1..Len(allTools) } |->
                            SearchCatalog[n] ]
             /\ startup = [ pc |-> "done", allTools |-> allTools, embedder |-> kind,
                            asyncGloVeDownload |-> FALSE, missing |-> FALSE ]
             /\ vectorStore = IF Len(allTools) = 0 THEN "nil"
                              ELSE IF kind = "claude" THEN "claude" ELSE "memory"
             /\ tables = << st.embeddings >>
             /\ embeddings = 1
             /\ embedder = st.embedder
             /\ dimension = st.dimension
             /\ toolSearch = [ IdleToolSearch EXCEPT !.searchResultLimit = l, !.builds = 1 ]
    /\ externalExecutors = EmptyMap
    /\ origin = EmptyMap
    /\ lastErr = "nil"
    /\ exec = IdleExec
    /\ batch = IdleBatch
    /\ calls = <<>>
    /\ upgrade = [ pc |-> "none", download |-> "none" ]
    /\ search = [ p \in Searchers |-> IdleSearch ]
    /\ started = 0
    /\ fuzzy = IdleFuzzy

\* BuildFromTools called once more on the same store with the same tools.
BuildAgain ==
    /\ toolSearch.op = "none"
    /\ startup.embedder # "claude"
    /\ toolSearch.builds < MaxBuilds
    /\ (toolSearch.builds + 1) * Len(startup.allTools) <= MaxEntries
    /\ LET st == SearchStores[startup.embedder, startup.allTools, toolSearch.builds + 1]
       IN  /\ tables' = [ tables EXCEPT ![embeddings] = st.embeddings ]
           /\ embedder' = st.embedder
           /\ dimension' = st.dimension
    /\ toolSearch' = [ IdleToolSearch EXCEPT !.searchResultLimit = toolSearch.searchResultLimit,
                                             !.builds = toolSearch.builds + 1 ]
    /\ UNCHANGED <<regVars, fuzzy, startup, vectorStore, embeddings, upgrade, search, started>>

\* InMemoryVectorStore.Search(query, topK), called on its own.
VectorSearch ==
    /\ toolSearch.op = "none"
    /\ startup.embedder # "claude"
    /\ \E query \in SearchQueries, topK \in SearchTopKs :
         \E results \in VectorStoreSearch(startup.embedder, startup.allTools,
                                          toolSearch.builds, query, topK) :
           toolSearch' = [ IdleToolSearch EXCEPT
                             !.searchResultLimit = toolSearch.searchResultLimit,
                             !.builds = toolSearch.builds,
                             !.op = "Search", !.query = query, !.topK = topK,
                             !.results = results ]
    /\ UNCHANGED <<regVars, fuzzy, startup, vectorStore, embeddings, embedder, dimension, tables,
                   upgrade, search, started>>

\* handleToolSearch: Search for three times the limit, the category filter, the
\* page, the metadata.
HandleToolSearch ==
    /\ toolSearch.op = "none"
    /\ \E query \in SearchQueries :
         LET answers == IF vectorStore # "nil"
                        THEN StoreAnswers(vectorStore, startup.embedder, startup.allTools,
                                          toolSearch.builds, query,
                                          SearchTopK(toolSearch.searchResultLimit))
                        ELSE { [ err |-> "nil", results |-> <<>> ] }
         IN  \E input \in ToolSearchInputs, answer \in answers :
               /\ input.Query = query
               /\ LET response == SearchResponse(toolSearch, input, FoundTools(answer))
                  IN  toolSearch' = [ response EXCEPT
                                        !.storeErr = answer.err,
                                        !.err = HandleToolSearchErr(answer.err),
                                        !.paging = (response.offset = 0),
                                        !.seen = PageNames(response) ]
    /\ UNCHANGED <<regVars, fuzzy, startup, vectorStore, embeddings, embedder, dimension, tables,
                   upgrade, search, started>>

\* What the store answers when the caller asks for the page after the one it
\* has: the in-memory store scores and sorts the same table for the same query,
\* and sort.Slice orders the same input the same way, so the ranking is the one
\* of the call before; the CLI-backed store asks its provider again.
StoreAnswersAgain(vs, kind, allTools, b, query, topK, found) ==
    IF vs = "memory" THEN { [ err |-> "nil", results |-> found ] }
    ELSE StoreAnswers(vs, kind, allTools, b, query, topK)

\* handleToolSearch, called for the next page: the query, the category and the
\* detail level of the call before, the offset moved on by the limit, while the
\* answers say has_more.
HandleToolSearchNextPage ==
    /\ toolSearch.op = "tool_search"
    /\ toolSearch.paging
    /\ toolSearch.has_more
    /\ vectorStore # "nil"
    /\ LET input == [ Query |-> toolSearch.query, Category |-> toolSearch.category,
                      DetailLevel |-> toolSearch.detailLevel,
                      Offset |-> toolSearch.offset + toolSearch.limit ]
       IN  \E answer \in StoreAnswersAgain(vectorStore, startup.embedder, startup.allTools,
                                           toolSearch.builds, toolSearch.query,
                                           SearchTopK(toolSearch.searchResultLimit),
                                           toolSearch.found) :
             LET response == SearchResponse(toolSearch, input, FoundTools(answer))
             IN  toolSearch' = [ response EXCEPT
                                   !.storeErr = answer.err,
                                   !.err = HandleToolSearchErr(answer.err),
                                   !.seen = toolSearch.seen \o PageNames(response) ]
    /\ UNCHANGED <<regVars, fuzzy, startup, vectorStore, embeddings, embedder, dimension, tables,
                   upgrade, search, started>>

\* The caller has its answer; the next call may be made.
SearchAnswered ==
    /\ toolSearch.op # "none"
    /\ toolSearch' = [ IdleToolSearch EXCEPT !.searchResultLimit = toolSearch.searchResultLimit,
                                             !.builds = toolSearch.builds ]
    /\ UNCHANGED <<regVars, fuzzy, startup, vectorStore, embeddings, embedder, dimension, tables,
                   upgrade, search, started>>

NextSearch ==
    \/ BuildAgain
    \/ VectorSearch
    \/ HandleToolSearch
    \/ HandleToolSearchNextPage
    \/ SearchAnswered

SpecSearch == InitSearch /\ [][NextSearch]_vars

(***************************************************************************)
(* The TF-IDF embedder on its own: BuildVocabulary called again and again  *)
(* on one object, and Generate.                                            *)
(***************************************************************************)
VocabTexts ==
    { <<"read", " ", "file">>, <<"open", " ", "page">>, <<"read", " ", "the", " ", "page">> }

\* The corpora BuildVocabulary is given.
Corpora ==
    { << t >> : t \in VocabTexts }
      \cup { << <<"read", " ", "file">>, <<"open", " ", "page">> >> }

\* The orders in which a loop over a map with the keys S may meet them.
MapOrders(S) ==
    { sq \in [ 1..Cardinality(S) -> S ] : \A i, j \in DOMAIN sq : sq[i] = sq[j] => i = j }

\* NewTFIDFEmbedder, and nothing else running.
InitVocabulary ==
    /\ tools = EmptyMap
    /\ externalExecutors = EmptyMap
    /\ origin = EmptyMap
    /\ lastErr = "nil"
    /\ exec = IdleExec
    /\ batch = IdleBatch
    /\ calls = <<>>
    /\ startup = [ pc |-> "none", allTools |-> <<>>, embedder |-> "tfidf",
                   asyncGloVeDownload |-> FALSE, missing |-> FALSE ]
    /\ vectorStore = "nil"
    /\ embeddings = 0
    /\ embedder = NewTFIDFEmbedder
    /\ dimension = 0
    /\ tables = << >>
    /\ upgrade = [ pc |-> "none", download |-> "none" ]
    /\ search = [ p \in Searchers |-> IdleSearch ]
    /\ started = 0
    /\ toolSearch = IdleToolSearch
    /\ fuzzy = IdleFuzzy

\* BuildVocabulary(documents) on the embedder, whatever it was given before.
BuildVocabularyCall ==
    /\ toolSearch.builds < MaxBuilds
    /\ \E documents \in Corpora :
         \E order \in MapOrders(CorpusWords(documents)) :
           embedder' = BuildVocabularyIn(embedder, documents, order)
    /\ toolSearch' = [ toolSearch EXCEPT !.builds = toolSearch.builds + 1 ]
    /\ search' = [ search EXCEPT ![1] = IdleSearch ]
    /\ UNCHANGED <<regVars, fuzzy, startup, vectorStore, embeddings, dimension, tables, upgrade,
                   started>>

\* Generate(text) on the embedder: which words it writes to which coordinate.
GenerateCall ==
    /\ search[1].pc = "idle"
    /\ \E text \in VocabTexts :
         search' = [ search EXCEPT ![1] = [ IdleSearch EXCEPT
                                             !.pc = "done", !.query = text, !.gen = "tfidf",
                                             !.results = CoordinateWrites(embedder, text) ] ]
    /\ UNCHANGED <<regVars, fuzzy, toolSearch, startup, vectorStore, embeddings, embedder,
                   dimension, tables, upgrade, started>>

NextVocabulary ==
    \/ BuildVocabularyCall
    \/ GenerateCall

SpecVocabulary == InitVocabulary /\ [][NextVocabulary]_vars

(***************************************************************************)
(* Fuzzy matcher: fuzzyMatch and levenshteinDistance (internal/tools)      *)
(*                                                                         *)
(* A string is the sequence of its bytes, which is what len and s[i] of    *)
(* the code read; every character of the inputs below is one byte.         *)
(***************************************************************************)
MaxWordLen == 3         \* the longest string levenshteinDistance is given, of all strings
MaxTargetLen == 3       \* the longest target fuzzyMatch is given, of all targets
MaxQueryLen == 2        \* the longest query fuzzyMatch is given, of all queries

Letters == { "a", "b", "c" }

Delimiters == { " ", "_", "-" }

\* strings.ToLower on the bytes of the inputs.
LowerOf(c) == IF c = "A" THEN "a" ELSE IF c = "B" THEN "b" ELSE c

ToLower(s) == [ i \in 1..Len(s) |-> LowerOf(s[i]) ]

\* strings.Contains
Contains(s, substr) ==
    \E i \in 0..(Len(s) - Len(substr)) : SubSeq(s, i + 1, i + Len(substr)) = substr

\* strings.FieldsFunc with the delimiter test of fuzzyMatch: the maximal runs of
\* other bytes, in order.
RECURSIVE FieldsFunc(_, _)
FieldsFunc(s, word) ==
    IF Len(s) = 0 THEN (IF Len(word) = 0 THEN <<>> ELSE << word >>)
    ELSE IF Head(s) \in Delimiters
         THEN (IF Len(word) = 0 THEN <<>> ELSE << word >>) \o FieldsFunc(Tail(s), <<>>)
         ELSE FieldsFunc(Tail(s), Append(word, Head(s)))

\* A minimum that never takes the substitution.
min_NoSubstitution(a, b, c) == IF a < b THEN a ELSE b

\* min of fuzzy.go
min(a, b, c) ==
    IF a < b THEN (IF a < c THEN a ELSE c)
    ELSE IF b < c THEN b ELSE c

\* One row of the matrix, filled from left to right: row[j + 1] is matrix[i][j].
RECURSIVE FillRow(_, _, _, _, _)
FillRow(prev, row, ch, s2, j) ==
    IF j > Len(s2) THEN row
    ELSE LET cost == IF ch # s2[j] THEN 1 ELSE 0
         IN  FillRow(prev,
                     Append(row, min(prev[j + 1] + 1, row[j] + 1, prev[j] + cost)),
                     ch, s2, j + 1)

\* The matrix, filled row by row: matrix[i + 1] is the row of s1's first i bytes.
RECURSIVE FillMatrix(_, _, _, _)
FillMatrix(matrix, s1, s2, i) ==
    IF i > Len(s1) THEN matrix
    ELSE FillMatrix(Append(matrix, FillRow(matrix[i], << i >>, s1[i], s2, 1)), s1, s2, i + 1)

\* levenshteinDistance: the last cell of the matrix.
levenshteinDistance(s1, s2) ==
    LET firstRow == [ j \in 1..(Len(s2) + 1) |-> j - 1 ]
        matrix == FillMatrix(<< firstRow >>, s1, s2, 1)
    IN  matrix[Len(s1) + 1][Len(s2) + 1]

\* A threshold that is a third of the length, not clamped.
maxDistance_Unclamped(n) == n \div 3

\* fuzzyMatch: the allowed distance for a query of n bytes.
maxDistance(n) ==
    IF n \div 3 < 1 THEN 1
    ELSE IF n \div 3 > 3 THEN 3
    ELSE n \div 3

\* fuzzyMatch
fuzzyMatch(query, target) ==
    IF query = <<>> THEN TRUE
    ELSE LET queryLower == ToLower(query)
             targetLower == ToLower(target)
             words == FieldsFunc(targetLower, <<>>)
         IN  IF Contains(targetLower, queryLower) THEN TRUE
             ELSE \E k \in 1..Len(words) :
                    levenshteinDistance(queryLower, words[k]) <= maxDistance(Len(queryLower))

\* All strings of up to n bytes over an alphabet.
RECURSIVE StringsUpTo(_, _)
StringsUpTo(alphabet, n) ==
    IF n = 0 THEN { <<>> }
    ELSE LET shorter == StringsUpTo(alphabet, n - 1)
         IN  shorter \cup { Append(s, c) : s \in shorter, c \in alphabet }

\* The strings levenshteinDistance is called with.
LevStrings == StringsUpTo(Letters, MaxWordLen)

\* Longer queries, which allow two and three edits, and targets with a word that
\* is one, two, three or four edits away from them.
LongQueries ==
    { <<"a", "b", "c", "a", "b", "c">>,
      <<"a", "b", "c", "a", "b", "c", "a", "b", "c">>,
      <<"A", "b", "c", "a", "b", "c", "a", "b", "c", "a", "b", "c">> }

LongTargets ==
    { <<"b", "_", "a", "b", "c", "a", "b", "b">>,
      <<"a", "b", "b", "b", "b", "c", "-", "c">>,
      <<"a", "b", "c", "a", "b", "c", "b", "b", "b">>,
      <<"b", "b", "b", "b", "b", "c", "a", "b", "c", " ", "a">>,
      <<"a", "b", "c", "a", "b", "c", "a", "b", "c", "c", "c", "c", "c", "c", "c">>,
      <<"a", "b", "c", "a", "b", "c", "a", "b", "c", "c", "c", "c", "c", "c", "c", "c">> }

FuzzyQueries == StringsUpTo({ "a", "b", "A" }, MaxQueryLen) \cup LongQueries

FuzzyTargets == StringsUpTo({ "a", "b", "B", "_", " ", "-" }, MaxTargetLen) \cup LongTargets

\* A call of fuzzyMatch.
FuzzyMatchCall ==
    /\ fuzzy.op = "none"
    /\ \E query \in FuzzyQueries, target \in FuzzyTargets :
         fuzzy' = [ op |-> "fuzzyMatch", query |-> query, target |-> target,
                    matched |-> fuzzyMatch(query, target), distance |-> 0 ]
    /\ UNCHANGED <<regVars, startup, vectorStore, embeddings, embedder, dimension, tables,
                   upgrade, search, started, toolSearch>>

\* A call of levenshteinDistance.
LevenshteinCall ==
    /\ fuzzy.op = "none"
    /\ \E s1 \in LevStrings, s2 \in LevStrings :
         fuzzy' = [ op |-> "levenshteinDistance", query |-> s1, target |-> s2,
                    matched |-> FALSE, distance |-> levenshteinDistance(s1, s2) ]
    /\ UNCHANGED <<regVars, startup, vectorStore, embeddings, embedder, dimension, tables,
                   upgrade, search, started, toolSearch>>

\* The caller has its answer.
FuzzyAnswered ==
    /\ fuzzy.op # "none"
    /\ fuzzy' = IdleFuzzy
    /\ UNCHANGED <<regVars, startup, vectorStore, embeddings, embedder, dimension, tables,
                   upgrade, search, started, toolSearch>>

NextFuzzy ==
    \/ FuzzyMatchCall
    \/ LevenshteinCall
    \/ FuzzyAnswered

SpecFuzzy == InitReg /\ [][NextFuzzy]_vars

(***************************************************************************)
(* Properties of the dispatcher                                            *)
(***************************************************************************)
BatchReturned == batch.pc = "returned"

FailedAt(j) == j \in 1..Len(batch.results) /\ ~batch.results[j].Success

\* C1: a returned batch with continueOnError=false whose first failure is at index
\* j (1-based; 0-indexed position j-1) holds exactly j results, the j-1 successes and
\* then the failure, and holds all of them when none failed; with
\* continueOnError=true it holds one result per submitted request.
C1_BatchResultCount ==
    BatchReturned =>
        IF batch.coe
        THEN Len(batch.results) = Len(batch.reqs)
        ELSE /\ \A j \in 1..Len(batch.results) : FailedAt(j) => j = Len(batch.results)
             /\ (\A j \in 1..Len(batch.results) : ~FailedAt(j))
                    => Len(batch.results) = Len(batch.reqs)

\* A batch of three stopped after a success and a failure.
C1_Witness ==
    /\ BatchReturned /\ ~batch.coe
    /\ Len(batch.reqs) = 3 /\ Len(batch.results) = 2
    /\ batch.results[1].Success /\ ~batch.results[2].Success

\* C2: with continueOnError=false, once a result is unsuccessful the batch has
\* returned with that result as its last, and no handler or remote executor was
\* invoked for a request after it.
C2_NothingAfterFailure ==
    (batch.pc # "idle" /\ ~batch.coe) =>
        \A j \in 1..Len(batch.results) :
            FailedAt(j) =>
                /\ batch.pc = "returned"
                /\ batch.i = j + 1
                /\ \A k \in 1..Len(calls) : calls[k].pos <= j

\* A failing handler or remote call at the first of three requests.
C2_Witness ==
    /\ BatchReturned /\ ~batch.coe
    /\ Len(batch.reqs) = 3 /\ Len(batch.results) = 1
    /\ batch.results[1].ErrorType = "execution_error"
    /\ Len(calls) = 1

\* C3: requests run in the given order, one at a time: an invocation for request p
\* is made when exactly the results of requests 1..p-1 exist, it is made for that
\* request's tool with that request's arguments, invocations follow each other in
\* request order, and the i-th result is for the i-th request.
C3_SequentialInOrder ==
    /\ \A k \in 1..Len(calls) :
           /\ calls[k].nres = calls[k].pos - 1
           /\ calls[k].pos \in 1..Len(batch.reqs)
           /\ calls[k].inv.args = batch.reqs[calls[k].pos].Parameters
           /\ calls[k].inv.kind = "handler"
                  => calls[k].inv.name = batch.reqs[calls[k].pos].ToolName
           /\ calls[k].inv.kind = "remote"
                  => PrefixedName(calls[k].inv.source, calls[k].inv.name)
                         = batch.reqs[calls[k].pos].ToolName
           /\ calls[k].pos <= Len(batch.results) + 1
           /\ calls[k].pos = Len(batch.results) + 1 => batch.pc = "calling"
    /\ \A k, l \in 1..Len(calls) : k < l => calls[k].pos < calls[l].pos
    /\ Len(batch.results) <= Len(batch.reqs)
    /\ \A i \in 1..Len(batch.results) :
           batch.results[i].ToolName = batch.reqs[i].ToolName

\* Three requests for three different tools, two of them invoked, all answered.
C3_Witness ==
    /\ BatchReturned
    /\ Len(batch.results) = 3 /\ Len(calls) = 2
    /\ batch.reqs[1].ToolName # batch.reqs[3].ToolName
    /\ batch.reqs[1].ToolName # batch.reqs[2].ToolName

Successes(results) == Cardinality({ j \in 1..Len(results) : results[j].Success })

\* C15: a returned batch holds one result per call of Execute it made, and its
\* success and failure counts are the numbers of successful and unsuccessful
\* results, so they add up to the length of the list; while the batch runs the
\* list lags behind the calls by the one call in progress.
C15_BatchCounts ==
    /\ BatchReturned =>
          /\ Len(batch.results) = batch.attempted
          /\ batch.successCount = Successes(batch.results)
          /\ batch.failedCount = Len(batch.results) - Successes(batch.results)
          /\ batch.successCount + batch.failedCount = Len(batch.results)
    /\ batch.pc = "calling" => Len(batch.results) = batch.attempted - 1
    /\ batch.pc = "loop" => Len(batch.results) = batch.attempted

\* A batch that stopped at a failure after one success, short of its three requests.
C15_Witness ==
    /\ BatchReturned /\ ~batch.coe
    /\ Len(batch.reqs) = 3 /\ batch.attempted = 2
    /\ batch.successCount = 1 /\ batch.failedCount = 1

ExecReturned == exec.pc \in { "returned", "responded" }

ExecTool == tools[exec.toolName]

NoExecutor ==
    /\ exec.toolName \in DOMAIN tools
    /\ ExecTool.Source = SourceExternal
    /\ ExecTool.SourceName \notin DOMAIN externalExecutors

\* C4: Execute's error value is nil on every path and handleToolExecute never
\* answers with IsError; a failure is a result with success=false whose kind is
\* tool_not_found for an unknown name, executor_not_found for a missing executor,
\* execution_error (with the error's text) for a failing handler or remote call; a
\* result with success=true carries the payload the handler or remote call
\* returned and neither error text nor error kind.
C4_FailuresAreResults ==
    ExecReturned =>
        /\ exec.err = "nil"
        /\ ~exec.isError
        /\ exec.result.ToolName = exec.toolName
        /\ exec.toolName \notin DOMAIN tools
               => ~exec.result.Success /\ exec.result.ErrorType = "tool_not_found"
        /\ NoExecutor
               => ~exec.result.Success /\ exec.result.ErrorType = "executor_not_found"
        /\ (calls # <<>> /\ exec.outcome.err # "nil")
               => /\ ~exec.result.Success
                  /\ exec.result.ErrorType = "execution_error"
                  /\ exec.result.Error = exec.outcome.err
        /\ exec.result.Success
               => /\ calls # <<>> /\ exec.outcome.err = "nil"
                  /\ exec.result.Error = "" /\ exec.result.ErrorType = ""
                  /\ exec.result.Result =
                         IF exec.inv.kind = "handler" THEN exec.outcome.value
                         ELSE IF exec.outcome.value = "map" THEN "map" ELSE "wrapped"
        /\ ~exec.result.Success
               => exec.result.ErrorType \in
                      { "tool_not_found", "executor_not_found", "execution_error" }

\* A remote call failed and handleToolExecute has answered.
C4_Witness ==
    /\ exec.pc = "responded"
    /\ exec.inv.kind = "remote"
    /\ exec.outcome.err = "boom"
    /\ exec.result.ErrorType = "execution_error"

\* C5: a name that is not in the catalog gives success=false, tool_not_found and a
\* nil result, an External tool whose source has no executor gives success=false
\* and executor_not_found, and in both cases no handler and no remote executor is
\* invoked.
C5_UnresolvedInvokesNothing ==
    /\ (exec.pc # "idle" /\ exec.toolName \notin DOMAIN tools)
           => /\ ExecReturned
              /\ ~exec.result.Success
              /\ exec.result.ErrorType = "tool_not_found"
              /\ exec.result.Result = "nil"
              /\ calls = <<>>
    /\ (exec.pc # "idle" /\ NoExecutor)
           => /\ ExecReturned
              /\ ~exec.result.Success
              /\ exec.result.ErrorType = "executor_not_found"
              /\ exec.result.Result = "nil"
              /\ calls = <<>>

\* An External tool of a source without executor was executed, while another
\* source has one.
C5_Witness ==
    /\ exec.pc = "returned"
    /\ NoExecutor
    /\ externalExecutors # EmptyMap

\* C6: a tool stored by RegisterExternalTool(S, T) is stored under S_T with source
\* S, and an execution of S_T that finds an executor for S invokes that executor,
\* once, with exactly T and the caller's arguments, and invokes nothing else.
C6_PrefixRoundTrip ==
    /\ \A n \in DOMAIN origin :
           /\ n = origin[n][1] \o US \o origin[n][2]
           /\ n \in DOMAIN tools
           /\ tools[n].Source = SourceExternal
           /\ tools[n].SourceName = origin[n][1]
    /\ (exec.pc # "idle" /\ exec.toolName \in DOMAIN origin
            /\ origin[exec.toolName][1] \in DOMAIN externalExecutors)
           => calls = << [ inv |-> [ kind |-> "remote",
                                     target |-> externalExecutors[origin[exec.toolName][1]],
                                     source |-> origin[exec.toolName][1],
                                     name |-> origin[exec.toolName][2],
                                     args |-> exec.args ],
                           pos |-> 1, nres |-> 0 ] >>

\* Source a_b (an underscore in S) holds tool a_c, executed as a_b_a_c while source
\* a has another executor: the call goes to a_b's executor under the name a_c.
C6_Witness ==
    /\ exec.pc = "calling"
    /\ exec.toolName = <<"a", "_", "b", "_", "a", "_", "c">>
    /\ <<"a">> \in DOMAIN externalExecutors
    /\ externalExecutors[<<"a">>] = "e1"
    /\ calls[1].inv.target = "e2"
    /\ calls[1].inv.name = <<"a", "_", "c">>

\* C23: a call of Execute whose context was canceled while it waited in the
\* handler or in the remote call returns a failed ExecutionResult: Success false,
\* the tool's name, an error text and an error type.
C23_CanceledExecuteFails ==
    (exec.pc = "returned" /\ exec.canceled) =>
        /\ ~exec.result.Success
        /\ exec.result.ToolName = exec.toolName
        /\ exec.result.Error # ""
        /\ exec.result.ErrorType # ""

(***************************************************************************)
(* Properties of the catalog                                               *)
(***************************************************************************)
\* Every Tool a registration call may hand to Register.
Registrable ==
    DirectTools \cup
        { ExternalTool(s, c, t) : s \in SourceNames, c \in Categories, t \in RemoteToolNames }

\* C11: in every catalog the model reaches, Register reports InvalidTool for an
\* empty name, MissingHandler for an Internal tool without handler, DuplicateName
\* for a name the catalog holds, and no error otherwise; a call that reports an
\* error leaves the catalog as it was, the tool under a duplicate name included.
C11_RegisterFailures ==
    /\ [](\A tool \in Registrable :
            LET err == RegisterError(tools, tool)
                invalid == tool.Name = <<>>
                missing == tool.Source = SourceInternal /\ tool.Handler = NilHandler
                duplicate == tool.Name \in DOMAIN tools
            IN  /\ invalid => err = "InvalidTool"
                /\ (~invalid /\ missing) => err = "MissingHandler"
                /\ (~invalid /\ ~missing /\ duplicate) => err = "DuplicateName"
                /\ (~invalid /\ ~missing /\ ~duplicate) => err = "nil"
                /\ err # "nil" => RegisterTools(tools, tool) = tools)
    /\ [][lastErr' # "nil" => tools' = tools]_vars

\* A registration has just failed for a name the catalog holds.
C11_Witness ==
    /\ lastErr = "DuplicateName"
    /\ Cardinality(DOMAIN tools) = 2

\* C12: every tool of the catalog has a non-empty name, is stored under that name
\* and no other, has a handler when it is Internal, and has none when it is
\* External.
C12_CatalogInvariant ==
    \A n \in DOMAIN tools :
        /\ n # <<>>
        /\ tools[n].Name = n
        /\ tools[n].Source = SourceInternal => tools[n].Handler # NilHandler
        /\ tools[n].Source = SourceExternal => tools[n].Handler = NilHandler

\* C13: a tool that Register accepts is what Get returns for its name, equal in
\* every field; every step of registration and execution keeps each stored tool
\* as it is; and Get of a name the catalog does not hold fails with NotFound.
C13_GetRoundTrip ==
    /\ [](\A tool \in Registrable :
            RegisterError(tools, tool) = "nil"
                => Get(RegisterTools(tools, tool), tool.Name) = [ err |-> "nil", tool |-> tool ])
    /\ [](\A n \in DOMAIN origin :
            Get(tools, n).tool = ExternalTool(origin[n][1], tools[n].Category, origin[n][2]))
    /\ [](\A name \in RequestNames :
            name \notin DOMAIN tools => Get(tools, name) = [ err |-> "NotFound", tool |-> NoTool ])
    /\ [][\A n \in DOMAIN tools : Get(tools', n) = Get(tools, n)]_vars

\* A call of Execute has returned for a registered external tool while the catalog
\* also holds an internal tool with a handler.
C13_Witness ==
    /\ exec.pc = "returned"
    /\ exec.toolName \in DOMAIN origin
    /\ \E n \in DOMAIN tools : tools[n].Source = SourceInternal /\ tools[n].Handler # NilHandler

\* C14: a catalog name that RegisterExternalTool would compose for source s is
\* held, if at all, by a tool that source s registered: no tool of another source
\* makes the registration fail as a duplicate.
C14_NoCrossSourceConflict ==
    \A s \in SourceNames, t \in RemoteToolNames :
        PrefixedName(s, t) \in DOMAIN origin => origin[PrefixedName(s, t)][1] = s

(***************************************************************************)
(* Properties of the startup                                               *)
(***************************************************************************)
\* The configured strategy cannot be set up: its name is unknown, the Claude CLI
\* is not there, or the GloVe model is unknown, not in the cache or does not load.
FailsToInitialize(c) ==
    \/ c.embedderType \notin { "tfidf", "claude", "glove" }
    \/ c.embedderType = "claude" /\ ~c.claudeOk
    \/ c.embedderType = "glove" /\ (~c.modelKnown \/ ~c.cached \/ ~c.loadOk)

ToolSearched == toolSearch.op = "tool_search"

VectorSearched == toolSearch.op = "Search"

Max(a, b) == IF a > b THEN a ELSE b

\* The page the claim describes, for an offset, of the filtered tools.
PageOf(offset) ==
    LET total == toolSearch.total_count
        returned == Len(toolSearch.tools)
    IN  /\ returned = Min(toolSearch.limit, Max(0, total - offset))
        /\ toolSearch.has_more = (offset + returned < total)

\* C16 (amended): with offset the request's offset, or 0 when the request's is
\* negative, an answer of tool_search holds min(limit, max(0, total - offset))
\* tools, which are the filtered tools from position offset on, and its has_more
\* is (offset + returned length < total); total is the number of tools left
\* after the category filter and limit the server's configured limit.
C16_PaginationClamped ==
    ToolSearched =>
        /\ toolSearch.offset = Max(0, toolSearch.offsetIn)
        /\ toolSearch.limit = toolSearch.searchResultLimit
        /\ toolSearch.total_count = Len(toolSearch.results)
        /\ toolSearch.returned_count = Len(toolSearch.tools)
        /\ PageOf(toolSearch.offset)
        /\ \A i \in 1..Len(toolSearch.tools) :
             toolSearch.tools[i].Name = toolSearch.results[toolSearch.offset + i]

\* An answer that is a page in the middle: tools before it and tools after it.
C16_Witness ==
    /\ ToolSearched
    /\ toolSearch.offset > 0 /\ toolSearch.has_more /\ toolSearch.returned_count > 0

\* C16 as stated: for any offset of the request, negative ones included, the
\* answer holds min(limit, max(0, total - offset)) tools and has_more is
\* (offset + returned length < total).
C16_PaginationAnyOffset ==
    ToolSearched => PageOf(toolSearch.offsetIn)

\* C17: Search(query, topK) on a table of n entries returns min(topK, n) tools
\* and no error, for every topK from 0 on; on an empty table the answer is empty.
C17_SearchCount ==
    VectorSearched =>
        /\ toolSearch.err = "nil"
        /\ Len(toolSearch.results) = Min(toolSearch.topK, Len(tables[embeddings]))
        /\ Len(tables[embeddings]) = 0 => toolSearch.results = <<>>

\* A search that asked for more tools than the table holds, and one that asked
\* for fewer.
C17_Witness ==
    /\ VectorSearched
    /\ Len(tables[embeddings]) = 2
    /\ toolSearch.topK = 3

\* The order a stable sort leaves: descending scores, equal scores in the order
\* of the table.
StableOrder(scores) ==
    CHOOSE f \in SortedOrders(scores) :
        \A i, j \in 1..Len(scores) : (i < j /\ scores[f[i]] = scores[f[j]]) => f[i] < f[j]

\* C18: the tools Search returns are the first topK of the table sorted by
\* descending similarity, tools of equal similarity in the order the table has
\* them.
C18_StableRanking ==
    (VectorSearched /\ Len(tables[embeddings]) > 0) =>
        LET st == [ embeddings |-> tables[embeddings], embedder |-> embedder,
                    dimension |-> dimension ]
        IN  toolSearch.results =
                TopTools(st.embeddings, StableOrder(ScoresOf(st, toolSearch.query)),
                         toolSearch.topK)

\* C19: whatever the number of times the index was built from the same tools with
\* the same strategy, a ranking Search returns for a query is one the index built
\* once returns for it.
C19_RebuildSameRanking ==
    VectorSearched =>
        toolSearch.results \in
            VectorStoreSearch(startup.embedder, startup.allTools, 1, toolSearch.query,
                              toolSearch.topK)

\* C20: an answer of tool_search to a request with a category holds only tools of
\* that category, at every offset and detail level.
C20_CategoryFilter ==
    (ToolSearched /\ toolSearch.category # "") =>
        \A i \in 1..Len(toolSearch.tools) :
            /\ toolSearch.tools[i].Category = toolSearch.category
            /\ tools[toolSearch.tools[i].Name].Category = toolSearch.category

\* A request with a category, an offset and names only, answered with a tool while
\* the store had found a tool of another category too.
C20_Witness ==
    /\ ToolSearched
    /\ toolSearch.category = "fs" /\ toolSearch.detailLevel = "names_only"
    /\ toolSearch.offset = 1 /\ toolSearch.returned_count = 1
    /\ \E i \in 1..Len(toolSearch.found) : SearchCatalog[toolSearch.found[i]].Category = "web"

\* GetToolCount of the server's store.
IndexedTools == IF vectorStore = "memory" THEN Len(tables[embeddings]) ELSE Len(startup.allTools)

\* The names a sequence of tools holds.
NamesIn(sq) == { sq[i] : i \in 1..Len(sq) }

\* The answer is made of the first 3 * limit tools of the ranking f of the table
\* and of nothing else.
FromTopOf(f) ==
    LET table == tables[embeddings]
        n == Len(table)
        top == Min(3 * toolSearch.limit, n)
        ranked == [ i \in 1..n |-> table[f[i]].Tool ]
    IN  /\ toolSearch.found = SubSeq(ranked, 1, top)
        /\ toolSearch.results =
             SelectSeq(toolSearch.found,
                       LAMBDA t : toolSearch.category = ""
                                  \/ SearchCatalog[t].Category = toolSearch.category)
        /\ \A i \in (top + 1)..n :
             ranked[i] \notin NamesIn(toolSearch.found)
               => /\ ranked[i] \notin NamesIn(toolSearch.results)
                  /\ \A k \in 1..Len(toolSearch.tools) : toolSearch.tools[k].Name # ranked[i]

\* C28 (amended): over the in-memory index, tool_search filters by category only
\* the first 3 * limit tools of the ranking: total_count exceeds neither
\* 3 * limit nor the number of indexed tools, and a tool ranked below position
\* 3 * limit only is in no answer, whatever the offset.
C28_FilterAfterTopK ==
    (ToolSearched /\ vectorStore = "memory") =>
        /\ toolSearch.total_count <= 3 * toolSearch.limit
        /\ toolSearch.total_count <= IndexedTools
        /\ \E f \in Rankings[<<startup.embedder, startup.allTools, toolSearch.builds>>,
                              toolSearch.query] : FromTopOf(f)

\* An answer that lacks an indexed tool of the requested category, which the
\* ranking left below the first 3 * limit places.
C28_Witness ==
    /\ ToolSearched /\ vectorStore = "memory"
    /\ toolSearch.category = "fs"
    /\ Len(tables[embeddings]) > 3 * toolSearch.limit
    /\ Len(toolSearch.found) = 3 * toolSearch.limit
    /\ \E i \in 1..Len(startup.allTools) :
         /\ startup.allTools[i].Category = "fs"
         /\ startup.allTools[i].Name \notin NamesIn(toolSearch.found)

\* C28 as stated, for every store: the filter is given at most 3 * limit tools
\* and total_count exceeds neither 3 * limit nor the number of indexed tools.
C28_TotalCountBounded ==
    ToolSearched =>
        /\ Len(toolSearch.found) <= 3 * toolSearch.limit
        /\ toolSearch.total_count <= 3 * toolSearch.limit
        /\ toolSearch.total_count <= IndexedTools

\* The pages asked for so far, from offset 0 on and one after the other, are the
\* filtered ranking up to the end of the last page; when has_more is false they
\* are the whole of it, total_count tools, each position once.
PagesCover ==
    /\ toolSearch.offset + toolSearch.returned_count <= Len(toolSearch.results)
    /\ toolSearch.seen = SubSeq(toolSearch.results, 1,
                                toolSearch.offset + toolSearch.returned_count)
    /\ toolSearch.has_more => toolSearch.returned_count = toolSearch.limit
    /\ ~toolSearch.has_more =>
         /\ toolSearch.seen = toolSearch.results
         /\ Len(toolSearch.seen) = toolSearch.total_count

\* No tool is in the pages twice.
PagesDisjoint ==
    \A i, j \in 1..Len(toolSearch.seen) : toolSearch.seen[i] = toolSearch.seen[j] => i = j

C21_SearchNeverErrors ==
    ToolSearched =>
        /\ toolSearch.err = "nil"
        /\ (vectorStore = "nil" \/ toolSearch.storeErr # "nil") =>
              /\ toolSearch.tools = <<>>
              /\ toolSearch.total_count = 0
              /\ toolSearch.returned_count = 0
              /\ ~toolSearch.has_more

\* The provider behind the store failed and the call was answered.
C21_Witness ==
    /\ ToolSearched
    /\ vectorStore = "claude"
    /\ toolSearch.storeErr # "nil"

(***************************************************************************)
(* Properties of the TF-IDF vocabulary                                     *)
(***************************************************************************)

\* C30: after every BuildVocabulary call, a second call with another corpus
\* included, the vocabulary gives different words different indices, all within
\* 0..dimension-1, and Generate writes no two words to one coordinate.
C30_VocabularyInjective ==
    (embedder.kind = "tfidf" /\ embedder.initialized) =>
        /\ \A w1, w2 \in DOMAIN embedder.vocabulary :
             embedder.vocabulary[w1] = embedder.vocabulary[w2] => w1 = w2
        /\ \A w \in DOMAIN embedder.vocabulary :
             embedder.vocabulary[w] \in 0..(embedder.dimension - 1)
        /\ \A p \in Searchers :
             (search[p].pc = "done" /\ search[p].gen = "tfidf" /\ toolSearch.op = "none"
              /\ vectorStore = "nil")
               => \A i \in 1..Len(search[p].results) : Cardinality(search[p].results[i]) <= 1

\* The same for the first call on a new embedder, where it holds.
C30_FirstVocabulary ==
    (embedder.kind = "tfidf" /\ embedder.initialized
     /\ toolSearch.builds = 1) =>
        /\ \A w1, w2 \in DOMAIN embedder.vocabulary :
             embedder.vocabulary[w1] = embedder.vocabulary[w2] => w1 = w2
        /\ \A w \in DOMAIN embedder.vocabulary :
             embedder.vocabulary[w] \in 0..(embedder.dimension - 1)

(***************************************************************************)
(* Properties of the index build                                           *)
(***************************************************************************)

\* The entries the table holds for a tool.
EntriesOf(table, name) == { i \in 1..Len(table) : table[i].Tool = name }

\* The table holds one entry for each tool of the list whose Generate succeeds
\* with the store's embedder, and none for any other tool.
OneEmbeddingPerGenerated(table, e, allTools) ==
    \A i \in 1..Len(allTools) :
      Cardinality(EntriesOf(table, allTools[i].Name)) =
        IF GenerateErr(e, createSearchableText(allTools[i])) = "nil" THEN 1 ELSE 0

\* C26: BuildFromTools does not fail when Generate fails for a tool; the tool is
\* left out, the build goes on, and after the build the index holds exactly one
\* embedding for each tool whose Generate succeeded.
C26_OneEmbeddingPerEmbeddedTool ==
    (vectorStore = "memory" /\ toolSearch.builds >= 1) =>
      /\ BuildFromToolsErr(SearchStores[startup.embedder, startup.allTools, toolSearch.builds],
                           startup.allTools) = "nil"
      /\ OneEmbeddingPerGenerated(tables[embeddings], embedder, startup.allTools)

\* The same for the first build of a new store, where it holds: the tools of a
\* failing embedder are left out and every other tool is in the table once.
C26_FirstBuild ==
    (vectorStore = "memory" /\ toolSearch.builds = 1) =>
      OneEmbeddingPerGenerated(tables[embeddings], embedder, startup.allTools)

\* A store whose embedder failed for its tools has been built and is empty.
C26_FirstBuildSkipped ==
    /\ vectorStore = "memory" /\ toolSearch.builds = 1
    /\ Len(startup.allTools) = 2
    /\ \A i \in 1..2 : GenerateErr(embedder, createSearchableText(startup.allTools[i])) # "nil"
    /\ tables[embeddings] = <<>>

(***************************************************************************)
(* Properties of the fuzzy matcher                                         *)
(***************************************************************************)

(***************************************************************************)
\* The strings one insertion, deletion or substitution away from s, of at most
\* MaxWordLen bytes: a shortest sequence of edits between two strings never needs
\* a string longer than both.
OneEdit(s) ==
    { SubSeq(s, 1, i - 1) \o SubSeq(s, i + 1, Len(s)) : i \in 1..Len(s) }
    \cup { [ s EXCEPT ![i] = c ] : i \in 1..Len(s), c \in Letters }
    \cup (IF Len(s) < MaxWordLen
          THEN { SubSeq(s, 1, i) \o << c >> \o SubSeq(s, i + 1, Len(s)) :
                 i \in 0..Len(s), c \in Letters }
          ELSE {})

\* The strings at most k edits away from a string of S.
RECURSIVE Within(_, _)
Within(S, k) == IF k = 0 THEN S ELSE Within(S \cup UNION { OneEdit(t) : t \in S }, k - 1)

\* Within, worked out once for each string and number of edits.
EditBall == [ a \in LevStrings, k \in 0..MaxWordLen |-> Within({ a }, k) ]

\* The minimum number of edits that turn a into b.
EditDistance(a, b) ==
    CHOOSE k \in 0..MaxWordLen :
        /\ b \in EditBall[a, k]
        /\ k > 0 => b \notin EditBall[a, k - 1]

KittenSitting ==
    levenshteinDistance(<<"k", "i", "t", "t", "e", "n">>, <<"s", "i", "t", "t", "i", "n", "g">>)

\* The words of a target that the claim speaks of: the maximal parts of the
\* lower-cased target without space, underscore or dash.
WordsOfTarget(t) ==
    { SubSeq(t, p[1], p[2]) :
        p \in { q \in (1..Len(t)) \X (1..Len(t)) :
                  /\ q[1] <= q[2]
                  /\ \A i \in q[1]..q[2] : t[i] \notin Delimiters
                  /\ q[1] = 1 \/ t[q[1] - 1] \in Delimiters
                  /\ q[2] = Len(t) \/ t[q[2] + 1] \in Delimiters } }

Clamp(x, lo, hi) == IF x < lo THEN lo ELSE IF x > hi THEN hi ELSE x

\* C24: fuzzyMatch is true for the empty query and whenever the lower-cased
\* target contains the lower-cased query; in every other case it is true exactly
\* when some word of the target, split on space, underscore or dash, is within
\* clamp(len(query)/3, 1, 3) edits of the lower-cased query.
C24_FuzzyMatch ==
    fuzzy.op = "fuzzyMatch" =>
        LET q == ToLower(fuzzy.query)
            t == ToLower(fuzzy.target)
        IN  /\ fuzzy.query = <<>> => fuzzy.matched
            /\ Contains(t, q) => fuzzy.matched
            /\ (fuzzy.query # <<>> /\ ~Contains(t, q)) =>
                  (fuzzy.matched <=>
                     \E w \in WordsOfTarget(t) :
                        levenshteinDistance(q, w) <= Clamp(Len(fuzzy.query) \div 3, 1, 3))

\* A query of nine bytes matched a target that does not contain it, through a
\* word three edits away.
C24_Witness ==
    /\ fuzzy.op = "fuzzyMatch" /\ fuzzy.matched
    /\ Len(fuzzy.query) = 9
    /\ ~Contains(ToLower(fuzzy.target), ToLower(fuzzy.query))
    /\ \A w \in WordsOfTarget(ToLower(fuzzy.target)) :
         levenshteinDistance(ToLower(fuzzy.query), w) >= 3

\* C25: levenshteinDistance(a, b) is the minimum number of insertions, deletions
\* and substitutions of one byte that turn a into b; it is 0 for equal strings,
\* and 3 for kitten and sitting.
C25_LevenshteinExact ==
    /\ KittenSitting = 3
    /\ fuzzy.op = "levenshteinDistance" =>
          /\ fuzzy.distance = EditDistance(fuzzy.query, fuzzy.target)
          /\ fuzzy.query = fuzzy.target => fuzzy.distance = 0

\* A distance that takes a substitution and an insertion.
C25_Witness ==
    /\ fuzzy.op = "levenshteinDistance"
    /\ fuzzy.query = <<"a", "b">> /\ fuzzy.target = <<"b", "b", "c">>
    /\ fuzzy.distance = 2

(***************************************************************************)
(* Properties of the semantic index and of the upgrade in the background   *)
(***************************************************************************)
SearchSorted(p) == vectorStore = "memory" /\ search[p].pc \in { "sort", "done" } /\ search[p].sorted # 0

SearchDone(p) == vectorStore = "memory" /\ search[p].pc = "done"

\* C7: a search that runs while rebuildWithEmbedder replaces the table works on
\* one table from start to end, the old one or the new one: the table whose
\* entries it scored is the table it sorts and returns from.
C7_SearchSeesOneTable ==
    \A p \in Searchers : SearchSorted(p) => search[p].ranged = search[p].sorted

\* The strategy that produced the vectors of table t: the startup's for the
\* first table, GloVe for the table of the background rebuild.
TableStrategy(t) == IF t = 1 THEN startup.embedder ELSE "glove"

\* The search has embedded its query and read the table it scores.
SearchScores(p) == vectorStore = "memory" /\ search[p].ranged # 0

\* C27: every search scores its query vector against vectors of the strategy
\* that embedded the query, also when it overlaps the background rebuild: the
\* strategy is that of the table it scores and the vectors are as long as the
\* query vector.
C27_SameStrategyVectors ==
    \A p \in Searchers :
        SearchScores(p) =>
            /\ search[p].gen = TableStrategy(search[p].ranged)
            /\ \A i \in 1..Len(tables[search[p].ranged]) :
                  Len(tables[search[p].ranged][i].Embedding) = Len(search[p].queryEmbedding)

\* C8: with no rebuild at all, a search that runs at the same time as other
\* searches returns a ranking it could return when it runs alone, although all
\* searches write the Score fields of the same entries.
C8_ConcurrentSearchAsAlone ==
    \A p \in Searchers :
        (SearchDone(p) /\ upgrade.pc = "none")
            => search[p].results \in
                   SearchAlone(tables[embeddings], embedder, search[p].query, search[p].topK)

\* The store as startup builds it with the fallback strategy.
FallbackStore == BuiltStore["tfidf", startup.allTools]

\* The published store holds the fallback table and strategy, and nothing else exists.
FallbackInPlace ==
    /\ vectorStore = "memory"
    /\ embeddings = 1
    /\ embedder = FallbackStore.embedder
    /\ dimension = FallbackStore.dimension
    /\ Len(tables[1]) = Len(FallbackStore.embeddings)
    /\ \A i \in 1..Len(tables[1]) :
          /\ tables[1][i].Tool = FallbackStore.embeddings[i].Tool
          /\ tables[1][i].Embedding = FallbackStore.embeddings[i].Embedding

\* C9: when the download of the background task fails, the task ends without a
\* write: the step changes nothing but the task's own position, from then on
\* table, strategy and catalog stay those startup published, and every search
\* embeds its query with the fallback strategy and works on the fallback table.
C9_FailedUpgradeChangesNothing ==
    /\ [](upgrade.download = "failed" =>
            /\ FallbackInPlace
            /\ Len(tables) = 1
            /\ tools = IndexCatalog
            /\ upgrade.pc = "returned"
            /\ \A p \in Searchers :
                  /\ search[p].gen \in { "none", "tfidf" }
                  /\ search[p].ranged \in { 0, 1 }
                  /\ search[p].sorted \in { 0, 1 })
    /\ [][(upgrade.download # "failed" /\ upgrade'.download = "failed")
            => UNCHANGED <<regVars, fuzzy, toolSearch, startup, vectorStore, embeddings, embedder, dimension,
                           tables, search, started>>]_vars

\* A search has returned tools after the download failed.
C9_Witness ==
    /\ upgrade.download = "failed"
    /\ \E p \in Searchers : SearchDone(p) /\ Len(search[p].results) = 2

Rebuilt == upgrade.pc \in { "swap", "swapped" }

\* The startup and upgrade order on its own: at a startup that finds the GloVe
\* model missing the background task is started, and only once the table built
\* with the fallback strategy is published; a download that succeeds leads to the
\* call of rebuildWithEmbedder; after the swap the store holds the new strategy
\* and its table of the same tools, and a search that starts then reads both.
StartupThenUpgrade ==
    /\ []((startup.missing /\ startup.pc = "done") => upgrade.pc # "none")
    /\ []((upgrade.pc # "none" /\ ~Swapped) => (startup.missing /\ FallbackInPlace))
    /\ []((upgrade.pc # "none") =>
            /\ vectorStore = "memory"
            /\ \A i \in 1..Len(tables[1]) :
                  tables[1][i].Embedding = FallbackStore.embeddings[i].Embedding)
    /\ (upgrade.download = "ok") ~> Rebuilt
    /\ [](Swapped => /\ embeddings = 2
                     /\ embedder = NewGloVeEmbedder
                     /\ \A i \in 1..Len(tables[2]) :
                           /\ tables[2][i].Tool = tables[1][i].Tool
                           /\ tables[2][i].Embedding =
                                 BuiltStore["glove", startup.allTools].embeddings[i].Embedding)
    /\ [](\A p \in Searchers :
            search[p].swapped =>
                /\ search[p].gen \in { "none", "glove" }
                /\ search[p].gen = "glove" =>
                      search[p].queryEmbedding = Generate(NewGloVeEmbedder, search[p].query)
                /\ search[p].ranged \in { 0, 2 }
                /\ search[p].sorted \in { 0, 2 })

\* A search that started after the swap returns a ranking the new strategy gives
\* for its query.
RankedWithNewStrategy ==
    \A p \in Searchers :
        (SearchDone(p) /\ search[p].swapped)
            => search[p].results \in
                   SearchAlone(BuiltStore["glove", startup.allTools].embeddings,
                               NewGloVeEmbedder, search[p].query, search[p].topK)

\* C10: at a startup that finds the GloVe model missing, the index is built with
\* the fallback strategy and published before the background task is started; a
\* download that succeeds leads to the call of rebuildWithEmbedder; and every
\* search that starts after the swap returns the ranking of the new strategy.
C10_FallbackThenUpgrade == StartupThenUpgrade /\ []RankedWithNewStrategy

\* A search started after the swap has returned the ranking of the new strategy,
\* which the fallback strategy does not give for this query.
UpgradedSearchSeen ==
    /\ Swapped
    /\ \E p \in Searchers :
          /\ SearchDone(p)
          /\ search[p].swapped
          /\ search[p].query = <<"read">>
          /\ search[p].results = << ToolB.Name, ToolA.Name >>
          /\ search[p].results \notin SearchAlone(tables[1], FallbackStore.embedder, <<"read">>, 2)

====
